---- MODULE Spec2Model ----
(***************************************************************************)
(* Verification model of the numeric core of the recitation analyser:      *)
(*   - src/src/wasm/dtw.cpp : class DynamicTimeWarping and its C API       *)
(*   - src/src/wasm/hmm.cpp : class HiddenMarkovModel                      *)
(*                                                                         *)
(* DTW costs are doubles in the source.  The feature vectors of the model  *)
(* have small integer components chosen so that every Euclidean distance   *)
(* is an integer (3-4-5 triangles), hence every cost of the model is an    *)
(* integer the source computes without rounding; +infinity is the value    *)
(* Inf, which absorbs addition as the IEEE infinity does.                  *)
(*                                                                         *)
(* HMM log-probabilities are doubles as well.  A log-domain number x is    *)
(* represented by the exact rational exp(x) (a pair <<num, den>> in lowest *)
(* terms), -infinity by <<0, 1>>; log-domain addition is then the product  *)
(* of rationals and the order of log values is the order of the rationals. *)
(***************************************************************************)
EXTENDS Integers, Sequences, FiniteSets, TLC

(***************************************************************************)
(* Bounds of the model.                                                    *)
(***************************************************************************)
MaxLen == 3
MaxWindow == 1

(***************************************************************************)
(* Inputs: feature vectors and feature sequences.                          *)
(***************************************************************************)
Vectors1 == {<<0>>, <<3>>}
Vectors2 == {<<0, 0>>, <<3, 4>>}

FeatureSequences ==
    UNION {[1..n -> Vectors1] \cup [1..n -> Vectors2] : n \in 0..MaxLen}

Metrics == {"euclidean", "manhattan"}
WindowSizes == (0 - 1)..MaxWindow

(***************************************************************************)
(* Extended non-negative reals of the DTW cost matrix.                     *)
(***************************************************************************)
Inf == 1000000

DAdd(a, b) == IF a = Inf \/ b = Inf THEN Inf ELSE a + b

Abs(x) == IF x < 0 THEN 0 - x ELSE x

Sqrt(x) == CHOOSE r \in 0..x : r * r = x

\* Mutant of Min3: the deletion predecessor is left out of the minimum.
Min3NoDeletion(a, b, c) == IF b < a THEN b ELSE a

Min3(a, b, c) ==
    LET ab == IF b < a THEN b ELSE a
    IN  IF c < ab THEN c ELSE ab

RECURSIVE SumSq(_, _, _)
SumSq(a, b, k) ==
    IF k > Len(a) THEN 0
    ELSE (a[k] - b[k]) * (a[k] - b[k]) + SumSq(a, b, k + 1)

RECURSIVE SumAbs(_, _, _)
SumAbs(a, b, k) ==
    IF k > Len(a) THEN 0
    ELSE Abs(a[k] - b[k]) + SumAbs(a, b, k + 1)

euclideanDistance(a, b) ==
    IF Len(a) # Len(b) THEN Inf ELSE Sqrt(SumSq(a, b, 1))

\* Mutant of manhattanDistance: the absolute value is dropped.
RECURSIVE SumSigned(_, _, _)
SumSigned(a, b, k) ==
    IF k > Len(a) THEN 0
    ELSE (a[k] - b[k]) + SumSigned(a, b, k + 1)

manhattanDistanceSigned(a, b) ==
    IF Len(a) # Len(b) THEN Inf ELSE SumSigned(a, b, 1)

manhattanDistance(a, b) ==
    IF Len(a) # Len(b) THEN Inf ELSE SumAbs(a, b, 1)

LocalCost(a, b, distanceMetric) ==
    IF distanceMetric = "manhattan" THEN manhattanDistance(a, b)
    ELSE euclideanDistance(a, b)

(***************************************************************************)
(* The cost and path matrices, fields of the DynamicTimeWarping object.    *)
(* A matrix is a function on 0..n of functions on 0..m; the freshly        *)
(* constructed object holds two empty vectors.                             *)
(***************************************************************************)
EmptyMatrix == << >>

AssignMatrix(n, m, v) == [i \in 0..n |-> [j \in 0..m |-> v]]

Mats(cm, pm) == [cost |-> cm, path |-> pm]

\* Mutant of FillCell: a tie of match and insertion goes to the horizontal
\* predecessor.
FillCellHorizontalFirst(mats, i, j, cost) ==
    LET match == mats.cost[i - 1][j - 1]
        insertion == mats.cost[i][j - 1]
        deletion == mats.cost[i - 1][j]
        minCost == Min3(match, insertion, deletion)
        dir == IF minCost = insertion THEN 1
               ELSE IF minCost = match THEN 0
               ELSE 2
    IN  [cost |-> [mats.cost EXCEPT ![i][j] = DAdd(cost, minCost)],
         path |-> [mats.path EXCEPT ![i][j] = dir]]

\* Mutant of FillCell: ties go to the vertical predecessor first.
FillCellVerticalFirst(mats, i, j, cost) ==
    LET match == mats.cost[i - 1][j - 1]
        insertion == mats.cost[i][j - 1]
        deletion == mats.cost[i - 1][j]
        minCost == IF deletion <= match /\ deletion <= insertion THEN deletion
                   ELSE IF insertion <= match THEN insertion
                   ELSE match
        dir == IF minCost = deletion THEN 2
               ELSE IF minCost = insertion THEN 1
               ELSE 0
    IN  [cost |-> [mats.cost EXCEPT ![i][j] = DAdd(cost, minCost)],
         path |-> [mats.path EXCEPT ![i][j] = dir]]

\* One iteration of the inner loop body: cell (i, j) from its three
\* predecessors, ties resolved diagonal, then horizontal, then vertical.
FillCell(mats, i, j, cost) ==
    LET match == mats.cost[i - 1][j - 1]
        insertion == mats.cost[i][j - 1]
        deletion == mats.cost[i - 1][j]
        minCost == Min3(match, insertion, deletion)
        dir == IF minCost = match THEN 0
               ELSE IF minCost = insertion THEN 1
               ELSE 2
    IN  Mats([mats.cost EXCEPT ![i][j] = DAdd(cost, minCost)],
             [mats.path EXCEPT ![i][j] = dir])

\* The nested fill loops of compute, from cell (i, j) on, row by row.
RECURSIVE FillAll(_, _, _, _, _, _)
FillAll(mats, seq1, seq2, distanceMetric, i, j) ==
    IF i > Len(seq1) THEN mats
    ELSE IF j > Len(seq2)
         THEN FillAll(mats, seq1, seq2, distanceMetric, i + 1, 1)
         ELSE FillAll(FillCell(mats, i, j,
                               LocalCost(seq1[i], seq2[j], distanceMetric)),
                      seq1, seq2, distanceMetric, i, j + 1)

Max2(a, b) == IF a > b THEN a ELSE b
Min2(a, b) == IF a < b THEN a ELSE b

\* Mutant of JStart: the band has no lower edge.
JStartUnbanded(i, windowSize) == 1

JStart(i, windowSize) == Max2(1, i - windowSize)
JEnd(i, m, windowSize) == Min2(m, i + windowSize)

\* The nested fill loops of computeConstrained: row i covers the columns
\* JStart..JEnd of the Sakoe-Chiba band only.
RECURSIVE FillBand(_, _, _, _, _, _)
FillBand(mats, seq1, seq2, windowSize, i, j) ==
    IF i > Len(seq1) THEN mats
    ELSE IF j > JEnd(i, Len(seq2), windowSize)
         THEN FillBand(mats, seq1, seq2, windowSize, i + 1,
                       JStart(i + 1, windowSize))
         ELSE FillBand(FillCell(mats, i, j,
                                euclideanDistance(seq1[i], seq2[j])),
                       seq1, seq2, windowSize, i, j + 1)

\* The backtracking loop.  The path is collected end first (push_back).  A
\* cell whose direction code is none of 0, 1, 2 matches no case of the
\* switch: i and j keep their values and the loop never ends.
RECURSIVE Backtrack(_, _, _, _)
Backtrack(pm, i, j, path) ==
    IF ~(i > 0 /\ j > 0) THEN [path |-> path, loops |-> FALSE]
    ELSE LET pushed == Append(path, <<i - 1, j - 1>>)
         IN  CASE pm[i][j] = 0 -> Backtrack(pm, i - 1, j - 1, pushed)
               [] pm[i][j] = 1 -> Backtrack(pm, i, j - 1, pushed)
               [] pm[i][j] = 2 -> Backtrack(pm, i - 1, j, pushed)
               [] OTHER -> [path |-> pushed, loops |-> TRUE]

\* Mutant of Reverse: the path is left in backtracking order.
ReverseForgotten(s) == s

Reverse(s) == [k \in 1..Len(s) |-> s[Len(s) + 1 - k]]

\* What one call leaves behind: the returned DTWResult (distance, path),
\* whether the call returned at all, and the two matrix fields.
Outcome(distance, path, returned, cm, pm) ==
    [distance |-> distance, path |-> path, returned |-> returned,
     costMatrix |-> cm, pathMatrix |-> pm]

\* Mutant of compute: the matrices are assigned before the empty-input test.
computeAssignFirst(cm, pm, seq1, seq2, distanceMetric) ==
    LET n == Len(seq1)
        m == Len(seq2)
        init == Mats([AssignMatrix(n, m, Inf) EXCEPT ![0][0] = 0],
                     AssignMatrix(n, m, 0 - 1))
    IN  IF n = 0 \/ m = 0 THEN Outcome(Inf, << >>, TRUE, init.cost, init.path)
        ELSE LET filled == FillAll(init, seq1, seq2, distanceMetric, 1, 1)
                 back == Backtrack(filled.path, n, m, << >>)
             IN  Outcome(filled.cost[n][m], Reverse(back.path), ~back.loops,
                         filled.cost, filled.path)

\* Mutant of compute: matrices that already have the size of this call are
\* taken as filled, and the fill loops are skipped.
computeCachedBySize(cm, pm, seq1, seq2, distanceMetric) ==
    LET n == Len(seq1)
        m == Len(seq2)
    IN  IF n = 0 \/ m = 0 THEN Outcome(Inf, << >>, TRUE, cm, pm)
        ELSE LET init == Mats([AssignMatrix(n, m, Inf) EXCEPT ![0][0] = 0],
                              AssignMatrix(n, m, 0 - 1))
                 filled == IF cm = init.cost \/ cm = EmptyMatrix
                              \/ DOMAIN cm # 0..n \/ DOMAIN cm[0] # 0..m
                           THEN FillAll(init, seq1, seq2, distanceMetric, 1, 1)
                           ELSE Mats(cm, pm)
                 back == Backtrack(filled.path, n, m, << >>)
             IN  Outcome(filled.cost[n][m], Reverse(back.path), ~back.loops,
                         filled.cost, filled.path)

compute(cm, pm, seq1, seq2, distanceMetric) ==
    LET n == Len(seq1)
        m == Len(seq2)
    IN  IF n = 0 \/ m = 0 THEN Outcome(Inf, << >>, TRUE, cm, pm)
        ELSE LET init == Mats([AssignMatrix(n, m, Inf) EXCEPT ![0][0] = 0],
                              AssignMatrix(n, m, 0 - 1))
                 filled == FillAll(init, seq1, seq2, distanceMetric, 1, 1)
                 back == Backtrack(filled.path, n, m, << >>)
             IN  Outcome(filled.cost[n][m], Reverse(back.path), ~back.loops,
                         filled.cost, filled.path)

computeConstrained(cm, pm, seq1, seq2, windowSize) ==
    LET n == Len(seq1)
        m == Len(seq2)
    IN  IF n = 0 \/ m = 0 THEN Outcome(Inf, << >>, TRUE, cm, pm)
        ELSE LET init == Mats([AssignMatrix(n, m, Inf) EXCEPT ![0][0] = 0],
                              AssignMatrix(n, m, 0 - 1))
                 filled == FillBand(init, seq1, seq2, windowSize, 1,
                                    JStart(1, windowSize))
                 back == Backtrack(filled.path, n, m, << >>)
             IN  Outcome(filled.cost[n][m], Reverse(back.path), ~back.loops,
                         filled.cost, filled.path)

\* The division of two doubles, kept exact as the pair <<distance, length>>.
computeNormalizedDistance(cm, pm, seq1, seq2) ==
    LET result == compute(cm, pm, seq1, seq2, "euclidean")
        pathLength == Len(result.path)
    IN  [result EXCEPT !.distance =
            IF pathLength > 0 THEN <<result.distance, pathLength>>
            ELSE <<result.distance, 1>>]

\* The C API takes two flat arrays with one feature dimension each.
FeatureDim(seq) == IF Len(seq) = 0 THEN 1 ELSE Len(seq[1])

compute_dtw_distance(seq1, seq2) ==
    IF FeatureDim(seq1) # FeatureDim(seq2) THEN Inf
    ELSE compute(EmptyMatrix, EmptyMatrix, seq1, seq2, "euclidean").distance

(***************************************************************************)
(* State of the DTW specification: one DynamicTimeWarping object and the   *)
(* caller that holds two feature sequences and aligns them.                *)
(***************************************************************************)
VARIABLES
    seqA, seqB,      \* the two feature sequences the caller holds
    costMatrix,      \* DynamicTimeWarping::costMatrix
    pathMatrix,      \* DynamicTimeWarping::pathMatrix
    dtwCall,         \* the last call: operation, arguments and options
    dtwResult,       \* what the last call returned
    dtwPc            \* "idle", "returned", or "looping" (a call that never returns)

dtwVars == <<seqA, seqB, costMatrix, pathMatrix, dtwCall, dtwResult, dtwPc>>

NoCall == [op |-> "none", seq1 |-> << >>, seq2 |-> << >>]
NoResult == [distance |-> 0, path |-> << >>]

\* The object as its constructor leaves it.
DtwConstructed ==
    /\ costMatrix = EmptyMatrix
    /\ pathMatrix = EmptyMatrix
    /\ dtwCall = NoCall
    /\ dtwResult = NoResult
    /\ dtwPc = "idle"

\* All but the last vector of a sequence.
Front(s) == IF Len(s) = 0 THEN s ELSE SubSeq(s, 1, Len(s) - 1)

\* The second argument of compute: all of seqB, or seqB without its last frame.
SecondArgs == {seqB, Front(seqB)}

Finish(call, out) ==
    /\ dtwCall' = call
    /\ dtwResult' = [distance |-> out.distance, path |-> out.path]
    /\ costMatrix' = out.costMatrix
    /\ pathMatrix' = out.pathMatrix
    /\ dtwPc' = IF out.returned THEN "returned" ELSE "looping"
    /\ UNCHANGED <<seqA, seqB>>

Compute ==
    /\ dtwPc # "looping"
    /\ \E seq2 \in SecondArgs, metric \in Metrics :
          Finish([op |-> "compute", seq1 |-> seqA, seq2 |-> seq2,
                  metric |-> metric],
                 compute(costMatrix, pathMatrix, seqA, seq2, metric))

ComputeConstrained ==
    /\ dtwPc # "looping"
    /\ \E w \in WindowSizes :
          Finish([op |-> "computeConstrained", seq1 |-> seqA, seq2 |-> seqB,
                  windowSize |-> w],
                 computeConstrained(costMatrix, pathMatrix, seqA, seqB, w))

ComputeNormalizedDistance ==
    /\ dtwPc # "looping"
    /\ Finish([op |-> "computeNormalizedDistance", seq1 |-> seqA,
               seq2 |-> seqB],
              computeNormalizedDistance(costMatrix, pathMatrix, seqA, seqB))

\* compute_dtw_distance works on a DynamicTimeWarping object of its own: the
\* fields of the caller's object are not touched, and only a distance comes back.
ComputeDtwDistance ==
    /\ dtwPc # "looping"
    /\ dtwCall' = [op |-> "compute_dtw_distance", seq1 |-> seqA, seq2 |-> seqB]
    /\ dtwResult' = [distance |-> compute_dtw_distance(seqA, seqB),
                     path |-> << >>]
    /\ dtwPc' = "returned"
    /\ UNCHANGED <<seqA, seqB, costMatrix, pathMatrix>>

(***************************************************************************)
(* Two invocations of compute in flight on one DynamicTimeWarping object   *)
(* (two threads of a caller that analyses recordings in parallel).  Each   *)
(* invocation has its own arguments and locals; costMatrix and pathMatrix  *)
(* are the object's fields.  A step is the entry of the call (the          *)
(* empty-input test and the two assigns), one row of the fill loops, or    *)
(* the backtracking with the return.                                       *)
(***************************************************************************)
VARIABLES
    invocation       \* per invocation: where it is, its row index i, its result

callVars == <<invocation>>

VARIABLES
    dtwEarlier       \* the operation called on the object before the last one

historyVars == <<dtwEarlier>>

NoHistory == dtwEarlier = "none"

Invocations == {1, 2}

\* Invocation 1 aligns (seqA, seqB), invocation 2 aligns (seqB, seqA).
ArgsOf(t) ==
    IF t = 1 THEN [seq1 |-> seqA, seq2 |-> seqB]
    ELSE [seq1 |-> seqB, seq2 |-> seqA]

NotCalled == [pc |-> "start", i |-> 0, result |-> NoResult]

NoInvocation == invocation = [t \in Invocations |-> NotCalled]

\* The inner loop of compute for row i, from column j on.
RECURSIVE FillRow(_, _, _, _, _, _)
FillRow(mats, seq1, seq2, distanceMetric, i, j) ==
    IF j > Len(seq2) THEN mats
    ELSE FillRow(FillCell(mats, i, j,
                          LocalCost(seq1[i], seq2[j], distanceMetric)),
                 seq1, seq2, distanceMetric, i, j + 1)

\* Entry of compute: the empty-input return, or the assigns of the fields.
Enter(t) ==
    LET n == Len(ArgsOf(t).seq1)
        m == Len(ArgsOf(t).seq2)
    IN  /\ invocation[t].pc = "start"
        /\ IF n = 0 \/ m = 0
           THEN /\ invocation' =
                      [invocation EXCEPT ![t] =
                          [pc |-> "returned", i |-> 0,
                           result |-> [distance |-> Inf, path |-> << >>]]]
                /\ UNCHANGED <<costMatrix, pathMatrix>>
           ELSE /\ costMatrix' = [AssignMatrix(n, m, Inf) EXCEPT ![0][0] = 0]
                /\ pathMatrix' = AssignMatrix(n, m, 0 - 1)
                /\ invocation' =
                      [invocation EXCEPT ![t] = [@ EXCEPT !.pc = "filling",
                                                          !.i = 1]]
        /\ UNCHANGED <<seqA, seqB, dtwCall, dtwResult, dtwPc>>

\* One pass of the outer fill loop: row i of the fields.
FillNextRow(t) ==
    LET n == Len(ArgsOf(t).seq1)
        i == invocation[t].i
        filled == FillRow(Mats(costMatrix, pathMatrix), ArgsOf(t).seq1,
                          ArgsOf(t).seq2, "euclidean", i, 1)
    IN  /\ invocation[t].pc = "filling"
        /\ costMatrix' = filled.cost
        /\ pathMatrix' = filled.path
        /\ invocation' =
              [invocation EXCEPT ![t] =
                  [@ EXCEPT !.i = i + 1,
                            !.pc = IF i + 1 > n THEN "filled" ELSE "filling"]]
        /\ UNCHANGED <<seqA, seqB, dtwCall, dtwResult, dtwPc>>

\* The backtracking loop over the fields, and the return.
BacktrackAndReturn(t) ==
    LET n == Len(ArgsOf(t).seq1)
        m == Len(ArgsOf(t).seq2)
        back == Backtrack(pathMatrix, n, m, << >>)
    IN  /\ invocation[t].pc = "filled"
        /\ invocation' =
              [invocation EXCEPT ![t] =
                  [@ EXCEPT !.pc = IF back.loops THEN "looping" ELSE "returned",
                            !.result = [distance |-> costMatrix[n][m],
                                        path |-> Reverse(back.path)]]]
        /\ UNCHANGED <<seqA, seqB, costMatrix, pathMatrix,
                       dtwCall, dtwResult, dtwPc>>

(***************************************************************************)
(* Exact arithmetic for the HMM.  A probability is a rational <<num, den>> *)
(* in lowest terms with den > 0.                                           *)
(***************************************************************************)
RECURSIVE GCD(_, _)
GCD(a, b) == IF b = 0 THEN a ELSE GCD(b, a % b)

Rat(n, d) == LET g == GCD(n, d) IN <<n \div g, d \div g>>

RZero == <<0, 1>>
ROne == <<1, 1>>

RMul(p, q) ==
    LET g1 == GCD(p[1], q[2])
        g2 == GCD(q[1], p[2])
    IN  <<(p[1] \div g1) * (q[1] \div g2), (p[2] \div g2) * (q[2] \div g1)>>

RDiv(p, q) == RMul(p, <<q[2], q[1]>>)

CommonDen(p, q) == (p[2] \div GCD(p[2], q[2])) * q[2]

RAdd(p, q) ==
    LET l == CommonDen(p, q)
    IN  Rat(p[1] * (l \div p[2]) + q[1] * (l \div q[2]), l)

RLess(p, q) ==
    LET l == CommonDen(p, q)
    IN  p[1] * (l \div p[2]) < q[1] * (l \div q[2])

(***************************************************************************)
(* Log-domain doubles.  The value ln(q) is the record [exp |-> q] for a    *)
(* rational q >= 0; ln(0) is -infinity.  Sums of logs are logs of          *)
(* products, and ln is increasing, so +, - and > on log values are         *)
(* computed on the rationals under the log.                                *)
(***************************************************************************)
Log(p) == [exp |-> p]
Exp(x) == x.exp

NegInf == Log(RZero)

LogAdd(x, y) == Log(RMul(Exp(x), Exp(y)))
LogSub(x, y) == Log(RDiv(Exp(x), Exp(y)))
LogGreater(x, y) == RLess(Exp(y), Exp(x))

logSum(logA, logB) ==
    IF logA = NegInf THEN logB
    ELSE IF logB = NegInf THEN logA
    ELSE IF LogGreater(logA, logB)
         THEN LogAdd(logA, Log(RAdd(ROne, Exp(LogSub(logB, logA)))))
         ELSE LogAdd(logB, Log(RAdd(ROne, Exp(LogSub(logA, logB)))))

(***************************************************************************)
(* The HiddenMarkovModel object.  States and symbols are numbered from 0,  *)
(* as in the source; a matrix is a function on 0..rows-1 of functions on   *)
(* 0..columns-1.                                                           *)
(***************************************************************************)
NumStates == 2
NumObservations == 2

StateIds(model) == 0..(model.numStates - 1)

\* A vector filled by a loop: the function f with every value computed once.
\* (A function constructor alone is evaluated anew at each application.)
Filled(f) == f @@ << >>

\* The constructor: matrices of zeros.
HiddenMarkovModel(states, observations) ==
    [numStates |-> states,
     numObservations |-> observations,
     transitionMatrix |->
        [i \in 0..(states - 1) |-> [j \in 0..(states - 1) |-> RZero]],
     emissionMatrix |->
        [i \in 0..(states - 1) |-> [o \in 0..(observations - 1) |-> RZero]],
     initialProbabilities |-> [i \in 0..(states - 1) |-> RZero]]

\* delta[0][i] and alpha[0][i]: log initial + log emission, or -infinity
\* for a symbol the model does not know.
InitialCell(model, observations, i) ==
    IF observations[1] < model.numObservations
    THEN LogAdd(Log(model.initialProbabilities[i]),
                Log(model.emissionMatrix[i][observations[1]]))
    ELSE NegInf

\* The inner loop of the Viterbi recursion for target state j: the first
\* state i that attains the largest delta[t-1][i] + log A[i][j].
RECURSIVE MaxLoop(_, _, _, _, _, _)
MaxLoop(model, prev, j, i, maxProb, maxState) ==
    IF i >= model.numStates THEN [maxProb |-> maxProb, maxState |-> maxState]
    ELSE LET prob == LogAdd(prev[i], Log(model.transitionMatrix[i][j]))
         IN  IF LogGreater(prob, maxProb)
             THEN MaxLoop(model, prev, j, i + 1, prob, i)
             ELSE MaxLoop(model, prev, j, i + 1, maxProb, maxState)

\* One time step of the Viterbi recursion: row t of delta and of psi.
\* observations is 1-indexed here: observations[t + 1] is o_t.
ViterbiStep(model, observations, t, prev) ==
    LET best == Filled([j \in StateIds(model) |->
                           MaxLoop(model, prev, j, 0, NegInf, 0)])
    IN  [delta |-> Filled([j \in StateIds(model) |->
                      IF observations[t + 1] < model.numObservations
                      THEN LogAdd(best[j].maxProb,
                                  Log(model.emissionMatrix[j][observations[t + 1]]))
                      ELSE NegInf]),
         psi |-> Filled([j \in StateIds(model) |-> best[j].maxState])]

\* Rows 0..t of delta and psi.
RECURSIVE ViterbiLattice(_, _, _)
ViterbiLattice(model, observations, t) ==
    IF t = 0
    THEN [delta |-> Filled([u \in {0} |->
                        Filled([i \in StateIds(model) |->
                                   InitialCell(model, observations, i)])]),
          psi |-> Filled([u \in {0} |-> [i \in StateIds(model) |-> 0]])]
    ELSE LET before == ViterbiLattice(model, observations, t - 1)
             step == ViterbiStep(model, observations, t, before.delta[t - 1])
         IN  [delta |-> Filled([u \in 0..t |->
                            IF u = t THEN step.delta ELSE before.delta[u]]),
              psi |-> Filled([u \in 0..t |->
                            IF u = t THEN step.psi ELSE before.psi[u]])]

\* The termination loop: the first state with the largest delta[T-1][i].
RECURSIVE Termination(_, _, _, _, _)
Termination(model, last, i, maxProb, maxState) ==
    IF i >= model.numStates THEN [maxProb |-> maxProb, maxState |-> maxState]
    ELSE IF LogGreater(last[i], maxProb)
         THEN Termination(model, last, i + 1, last[i], i)
         ELSE Termination(model, last, i + 1, maxProb, maxState)

\* Mutant of PathFrom: the predecessor is read from row t of psi, not t + 1.
RECURSIVE PathFromRowBefore(_, _, _, _)
PathFromRowBefore(psi, T, t, maxState) ==
    IF t = T - 1 THEN maxState
    ELSE psi[t][PathFromRowBefore(psi, T, t + 1, maxState)]

\* Path backtracking: path[T-1] = maxState, path[t] = psi[t+1][path[t+1]].
RECURSIVE PathFrom(_, _, _, _)
PathFrom(psi, T, t, maxState) ==
    IF t = T - 1 THEN maxState
    ELSE psi[t + 1][PathFrom(psi, T, t + 1, maxState)]

viterbi(model, observations) ==
    LET T == Len(observations)
    IN  IF T = 0
        THEN [path |-> << >>, probability |-> NegInf, probabilities |-> << >>]
        ELSE LET lattice == ViterbiLattice(model, observations, T - 1)
                 term == Termination(model, lattice.delta[T - 1], 0, NegInf, 0)
                 path == Filled([t \in 0..(T - 1) |->
                            PathFrom(lattice.psi, T, t, term.maxState)])
             IN  [path |-> path,
                  probability |-> term.maxProb,
                  probabilities |->
                     Filled([t \in 0..(T - 1) |-> lattice.delta[t][path[t]]])]

\* Mutant of ForwardSum: the loop over source states starts at state 1.
RECURSIVE ForwardSumFromOne(_, _, _, _, _)
ForwardSumFromOne(model, prev, j, i, acc) ==
    IF i >= model.numStates THEN acc
    ELSE IF i = 0 THEN ForwardSumFromOne(model, prev, j, i + 1, acc)
    ELSE ForwardSumFromOne(model, prev, j, i + 1,
                           logSum(acc, LogAdd(prev[i],
                                              Log(model.transitionMatrix[i][j]))))

\* The inner loop of the forward recursion for target state j.
RECURSIVE ForwardSum(_, _, _, _, _)
ForwardSum(model, prev, j, i, acc) ==
    IF i >= model.numStates THEN acc
    ELSE ForwardSum(model, prev, j, i + 1,
                    logSum(acc, LogAdd(prev[i],
                                       Log(model.transitionMatrix[i][j]))))

\* Mutant of ForwardStep: a step with an unknown symbol is skipped (its
\* emission counts as probability 1) instead of scored -infinity.
ForwardStepSkipsUnknown(model, observations, t, prev) ==
    Filled([j \in StateIds(model) |->
        IF observations[t + 1] < model.numObservations
        THEN LogAdd(ForwardSum(model, prev, j, 0, NegInf),
                    Log(model.emissionMatrix[j][observations[t + 1]]))
        ELSE ForwardSum(model, prev, j, 0, NegInf)])

ForwardStep(model, observations, t, prev) ==
    Filled([j \in StateIds(model) |->
        IF observations[t + 1] < model.numObservations
        THEN LogAdd(ForwardSum(model, prev, j, 0, NegInf),
                    Log(model.emissionMatrix[j][observations[t + 1]]))
        ELSE NegInf])

\* Rows 0..t of alpha.
RECURSIVE ForwardLattice(_, _, _)
ForwardLattice(model, observations, t) ==
    IF t = 0
    THEN Filled([u \in {0} |->
            Filled([i \in StateIds(model) |->
                       InitialCell(model, observations, i)])])
    ELSE LET before == ForwardLattice(model, observations, t - 1)
             row == ForwardStep(model, observations, t, before[t - 1])
         IN  Filled([u \in 0..t |-> IF u = t THEN row ELSE before[u]])

\* logSum of row[i..numStates-1] onto acc, in index order.
RECURSIVE LogSumRow(_, _, _, _)
LogSumRow(model, row, i, acc) ==
    IF i >= model.numStates THEN acc
    ELSE LogSumRow(model, row, i + 1, logSum(acc, row[i]))

\* Mutant of forward: the empty sequence gets likelihood 1 (log 0.0), the
\* value of the empty product, instead of -infinity.
forwardEmptyCertain(model, observations) ==
    LET T == Len(observations)
    IN  IF T = 0 THEN [probability |-> Log(ROne), alpha |-> << >>]
        ELSE LET alpha == ForwardLattice(model, observations, T - 1)
             IN  [probability |-> LogSumRow(model, alpha[T - 1], 0, NegInf),
                  alpha |-> alpha]

forward(model, observations) ==
    LET T == Len(observations)
    IN  IF T = 0 THEN [probability |-> NegInf, alpha |-> << >>]
        ELSE LET alpha == ForwardLattice(model, observations, T - 1)
             IN  [probability |-> LogSumRow(model, alpha[T - 1], 0, NegInf),
                  alpha |-> alpha]

\* Mutant of BackwardSum: the transition is read transposed (A[j][i]).
RECURSIVE BackwardSumTransposed(_, _, _, _, _, _, _)
BackwardSumTransposed(model, observations, next, t, i, j, acc) ==
    IF j >= model.numStates THEN acc
    ELSE LET prob == LogAdd(LogAdd(Log(model.transitionMatrix[j][i]),
                                   Log(model.emissionMatrix[j][observations[t + 2]])),
                            next[j])
         IN  BackwardSumTransposed(model, observations, next, t, i, j + 1,
                                   logSum(acc, prob))

\* The inner loop of the backward recursion for source state i; o_{t+1} is
\* observations[t + 2].
RECURSIVE BackwardSum(_, _, _, _, _, _, _)
BackwardSum(model, observations, next, t, i, j, acc) ==
    IF j >= model.numStates THEN acc
    ELSE LET prob == LogAdd(LogAdd(Log(model.transitionMatrix[i][j]),
                                   Log(model.emissionMatrix[j][observations[t + 2]])),
                            next[j])
         IN  BackwardSum(model, observations, next, t, i, j + 1,
                         logSum(acc, prob))

\* Rows t..T-1 of beta, for a non-empty observation sequence.
RECURSIVE BackwardLattice(_, _, _)
BackwardLattice(model, observations, t) ==
    LET T == Len(observations)
    IN  IF t = T - 1
        THEN Filled([u \in {T - 1} |-> [i \in StateIds(model) |-> Log(ROne)]])
        ELSE LET after == BackwardLattice(model, observations, t + 1)
                 row == Filled([i \in StateIds(model) |->
                            BackwardSum(model, observations, after[t + 1],
                                        t, i, 0, NegInf)])
             IN  Filled([u \in t..(T - 1) |->
                            IF u = t THEN row ELSE after[u]])

\* backward has no test for o_{t+1} < numObservations: for an unknown symbol
\* it reads emissionMatrix[j] past its end.  What such a read yields is
\* whatever double lies there; UnknownReads are the values taken for it.
UnknownReads == {<<0, 1>>, <<2, 1>>}

\* The symbols backward reads the emission of: o_1 .. o_{T-1}.
ReadsPastEnd(model, observations) ==
    \E t \in 2..Len(observations) : observations[t] >= model.numObservations

\* The model as backward reads it when a read past the end of an emission
\* row yields the value junk.
Overread(model, observations, junk) ==
    [model EXCEPT !.emissionMatrix =
        [j \in StateIds(model) |->
            [o \in 0..(model.numObservations - 1)
                    \cup {observations[t] : t \in 1..Len(observations)} |->
                IF o < model.numObservations
                THEN model.emissionMatrix[j][o] ELSE junk]]]

\* backward has no test for T = 0 either: on an empty sequence beta has no
\* row and the initialisation writes beta[-1][i], outside the vector.  The
\* outcomes of an access outside a vector are a trap, or a return: of the
\* empty lattice, or of the lattice computed from the value read.
backward(model, observations) ==
    IF Len(observations) = 0
    THEN {[beta |-> << >>, trapped |-> FALSE],
          [beta |-> << >>, trapped |-> TRUE]}
    ELSE IF ReadsPastEnd(model, observations)
    THEN {[beta |-> << >>, trapped |-> TRUE]}
         \cup {[beta |-> BackwardLattice(Overread(model, observations, junk),
                                         observations, 0),
                 trapped |-> FALSE] : junk \in UnknownReads}
    ELSE {[beta |-> BackwardLattice(model, observations, 0),
           trapped |-> FALSE]}

(***************************************************************************)
(* Inputs of the HMM specification.                                        *)
(***************************************************************************)
MaxT == 3

\* The symbol numObservations: the smallest one the model does not know.
UnknownSymbol == NumObservations

\* Observation sequences of up to MaxT symbols, the empty one included: every
\* sequence of known symbols, and every sequence that mixes the known symbol
\* 0 with the unknown symbol.
ObservationSequences ==
    UNION {[1..n -> 0..(NumObservations - 1)] \cup [1..n -> {0, UnknownSymbol}] :
              n \in 0..MaxT}

\* The probability values the caller's matrices are made of.
CoarseProbabilities == {<<0, 1>>, <<1, 2>>, <<1, 1>>}
FineProbabilities == {<<0, 1>>, <<1, 4>>, <<3, 4>>, <<1, 1>>}

RECURSIVE RowSum(_, _, _)
RowSum(row, k, width) ==
    IF k >= width THEN RZero ELSE RAdd(row[k], RowSum(row, k + 1, width))

\* Probability rows of a given width over given values: each sums to 1.
Distributions(width, values) ==
    {row \in [0..(width - 1) -> values] : RowSum(row, 0, width) = ROne}

TransitionMatrices ==
    [0..(NumStates - 1) -> Distributions(NumStates, CoarseProbabilities)]
EmissionMatrices ==
    [0..(NumStates - 1) -> Distributions(NumObservations, FineProbabilities)]
InitialDistributions == Distributions(NumStates, CoarseProbabilities)

(***************************************************************************)
(* State of the HMM specification: one HiddenMarkovModel object, built and *)
(* filled by its caller in the order of viterbi_decode, then decoded.      *)
(***************************************************************************)
VARIABLES
    hmm,             \* the HiddenMarkovModel object (its five fields)
    observations,    \* the observation sequence the caller decodes
    hmmPc,           \* how far the caller is: constructed .. ready, trapped
    hmmCall,         \* the decoding method called last, "none" before any
    hmmResult        \* what that call returned

hmmVars == <<hmm, observations, hmmPc, hmmCall, hmmResult>>

\* The object as its constructor leaves it.
HmmConstructed ==
    /\ hmm = HiddenMarkovModel(NumStates, NumObservations)
    /\ hmmPc = "constructed"
    /\ hmmCall = "none"
    /\ hmmResult = << >>

\* The model is the caller's and is not changed once decoding has begun.
SetTransitionMatrix ==
    /\ hmmPc = "constructed" /\ hmmCall = "none"
    /\ \E transitions \in TransitionMatrices :
          hmm' = [hmm EXCEPT !.transitionMatrix = transitions]
    /\ hmmPc' = "transitionsSet"
    /\ UNCHANGED <<observations, hmmCall, hmmResult>>

SetEmissionMatrix ==
    /\ hmmPc = "transitionsSet" /\ hmmCall = "none"
    /\ \E emissions \in EmissionMatrices :
          hmm' = [hmm EXCEPT !.emissionMatrix = emissions]
    /\ hmmPc' = "emissionsSet"
    /\ UNCHANGED <<observations, hmmCall, hmmResult>>

SetInitialProbabilities ==
    /\ hmmPc = "emissionsSet" /\ hmmCall = "none"
    /\ \E initial \in InitialDistributions :
          hmm' = [hmm EXCEPT !.initialProbabilities = initial]
    /\ hmmPc' = "ready"
    /\ UNCHANGED <<observations, hmmCall, hmmResult>>

Viterbi ==
    /\ hmmPc # "trapped"
    /\ hmmCall' = "viterbi"
    /\ hmmResult' = viterbi(hmm, observations)
    /\ UNCHANGED <<hmm, observations, hmmPc>>

Forward ==
    /\ hmmPc # "trapped"
    /\ hmmCall' = "forward"
    /\ hmmResult' = forward(hmm, observations)
    /\ UNCHANGED <<hmm, observations, hmmPc>>

Backward ==
    /\ hmmPc # "trapped"
    /\ hmmCall' = "backward"
    /\ \E out \in backward(hmm, observations) :
          /\ hmmResult' = out.beta
          /\ hmmPc' = IF out.trapped THEN "trapped" ELSE hmmPc
    /\ UNCHANGED <<hmm, observations>>

(***************************************************************************)
(* Frame extraction and batch feature extraction: createFrames,            *)
(* applyWindow, calculateEnergy, calculateZeroCrossingRate and             *)
(* extractFeatures of audioFeatures.ts, and processAudioFrames of the      *)
(* AudioProcessor class.  Samples are integers; a window coefficient is    *)
(* kept in hundredths, so a windowed sample is an integer number of        *)
(* hundredths.  The rounding of Float32Array stores is not represented.    *)
(* The spectral features (pitch, centroid, rolloff, MFCC) are computed     *)
(* from the same frames and are not part of this model.                    *)
(***************************************************************************)
MaxSamples == 5
MaxFrame == 3
MaxHop == 2

SampleValues == {0 - 1, 0, 1}
AudioBuffers == UNION {[1..n -> SampleValues] : n \in 0..MaxSamples}
FrameSizes == (0 - 1)..MaxFrame
HopSizes == (0 - 1)..MaxHop
WindowTypes == {"hamming", "hann", "blackman"}
SampleRates == {4}

\* The IEEE value NaN: as a sample, a number no sample or windowed sample
\* takes; as a quotient, 0/0.
NaN == 0 - 1000000
NaNQuotient == <<0, 0>>

\* 2 * cos(2 * pi * i / d), for the d where it is an integer.
Cos2(i, d) ==
    CASE d = 1 -> 2
      [] d = 2 -> <<2, 0 - 2>>[(i % 2) + 1]
      [] d = 3 -> <<2, 0 - 1, 0 - 1>>[(i % 3) + 1]
      [] d = 4 -> <<2, 0, 0 - 2, 0>>[(i % 4) + 1]
      [] d = 6 -> <<2, 1, 0 - 1, 0 - 2, 0 - 1, 1>>[(i % 6) + 1]

\* The window coefficient at position i of N, in hundredths.  For N = 1 the
\* argument of cos is 0/0.
WindowValue(windowType, i, N) ==
    IF windowType \notin WindowTypes THEN 100
    ELSE IF N = 1 THEN NaN
    ELSE CASE windowType = "hamming" -> 54 - 23 * Cos2(i, N - 1)
           [] windowType = "hann" -> 50 - 25 * Cos2(i, N - 1)
           [] windowType = "blackman" ->
                 42 - 25 * Cos2(i, N - 1) + 4 * Cos2(2 * i, N - 1)

\* Product of doubles, one of which may be NaN.
Times(x, y) == IF x = NaN \/ y = NaN THEN NaN ELSE x * y

\* A frame is a sequence; position i of the source is element i + 1.
applyWindow(frame, windowType) ==
    [k \in 1..Len(frame) |->
        Times(frame[k], WindowValue(windowType, k - 1, Len(frame)))]

\* Mutant of FramesFrom: the loop condition is i < length - windowSize.
RECURSIVE FramesFromStrict(_, _, _, _)
FramesFromStrict(audioData, windowSize, hopSize, i) ==
    IF i < Len(audioData) - windowSize
    THEN <<[j \in 1..windowSize |-> audioData[i + j]]>>
             \o FramesFromStrict(audioData, windowSize, hopSize, i + hopSize)
    ELSE << >>

\* The frames of the loop from start index i on, for a positive hopSize.
RECURSIVE FramesFrom(_, _, _, _)
FramesFrom(audioData, windowSize, hopSize, i) ==
    IF i <= Len(audioData) - windowSize
    THEN <<[j \in 1..windowSize |-> audioData[i + j]]>>
             \o FramesFrom(audioData, windowSize, hopSize, i + hopSize)
    ELSE << >>

\* createFrames.  When the loop is entered (0 <= length - windowSize):
\* a negative windowSize makes new Float32Array(windowSize) throw a
\* RangeError; a hopSize <= 0 never makes the loop condition false, and the
\* call pushes frames without end.
createFrames(audioData, windowSize, hopSize) ==
    IF 0 <= Len(audioData) - windowSize
    THEN IF windowSize < 0
         THEN [status |-> "RangeError", frames |-> << >>]
         ELSE IF hopSize <= 0
         THEN [status |-> "looping", frames |-> << >>]
         ELSE [status |-> "returned",
               frames |-> FramesFrom(audioData, windowSize, hopSize, 0)]
    ELSE [status |-> "returned", frames |-> << >>]

\* The square root of the rational q, kept exact.
Root(q) == [sqrtOf |-> q]

RECURSIVE SumSquares(_, _)
SumSquares(frame, k) ==
    IF k > Len(frame) THEN 0
    ELSE frame[k] * frame[k] + SumSquares(frame, k + 1)

\* sqrt(sum / length); 0/0 for an empty frame.
calculateEnergy(frame) ==
    IF Len(frame) = 0 \/ \E k \in 1..Len(frame) : frame[k] = NaN
    THEN Root(NaNQuotient)
    ELSE Root(Rat(SumSquares(frame, 1), Len(frame)))

\* x >= 0 on doubles: false for NaN.
NonNegative(x) == x # NaN /\ x >= 0

Crossings(frame) ==
    Cardinality({i \in 2..Len(frame) :
                    NonNegative(frame[i]) # NonNegative(frame[i - 1])})

\* crossings / length; 0/0 for an empty frame.
calculateZeroCrossingRate(frame) ==
    IF Len(frame) = 0 THEN NaNQuotient
    ELSE Rat(Crossings(frame), Len(frame))

\* extractFeatures: the options it reads are hopSize and windowSize; every
\* frame is windowed with 'hamming'.  Element i + 1 belongs to frame i.
extractFeatures(audioData, sampleRate, options) ==
    LET made == createFrames(audioData, options.windowSize, options.hopSize)
        windowedFrames ==
            [i \in 1..Len(made.frames) |-> applyWindow(made.frames[i], "hamming")]
        n == Len(windowedFrames)
    IN  IF made.status # "returned"
        THEN [status |-> made.status, features |-> << >>]
        ELSE [status |-> "returned",
              features |->
                [timestamps |->
                    [i \in 1..n |-> Rat((i - 1) * options.hopSize, sampleRate)],
                 energy |-> [i \in 1..n |-> calculateEnergy(windowedFrames[i])],
                 zeroCrossingRate |->
                    [i \in 1..n |-> calculateZeroCrossingRate(windowedFrames[i])]]]

\* AudioProcessor::processAudioFrames: the same loop on a std::vector; the
\* features of a frame are taken from its raw samples.  A negative
\* frameSize makes std::vector<double> frame(frameSize) throw length_error.
processAudioFrames(audioData, sampleRate, frameSize, hopSize) ==
    IF 0 <= Len(audioData) - frameSize
    THEN IF frameSize < 0
         THEN [status |-> "length_error", features |-> << >>]
         ELSE IF hopSize <= 0
         THEN [status |-> "looping", features |-> << >>]
         ELSE LET frames == FramesFrom(audioData, frameSize, hopSize, 0)
              IN  [status |-> "returned",
                   features |->
                      [i \in 1..Len(frames) |->
                          [energy |-> calculateEnergy(frames[i]),
                           zcr |-> calculateZeroCrossingRate(frames[i])]]]
    ELSE [status |-> "returned", features |-> << >>]

(***************************************************************************)
(* State of the feature specification: one audio buffer and one set of     *)
(* processing options, handed to the extraction functions.                 *)
(***************************************************************************)
VARIABLES
    audioData,       \* channel 0 of the AudioBuffer
    sampleRate,      \* its sample rate
    options,         \* the AudioProcessingOptions of the caller
    featCall,        \* the function called last, "none" before any
    featStatus,      \* how that call ended
    featResult       \* what it returned

featVars == <<audioData, sampleRate, options, featCall, featStatus, featResult>>

\* The options extractFeatures takes when the caller gives none.
DefaultOptions ==
    [hopSize |-> 512, windowSize |-> 2048, windowType |-> "hamming"]

\* No audio handed over yet.
NoAudio ==
    /\ audioData = << >>
    /\ sampleRate \in SampleRates
    /\ options = DefaultOptions

FeaturesIdle ==
    /\ featCall = "none"
    /\ featStatus = "idle"
    /\ featResult = << >>

CreateFrames ==
    /\ featStatus # "looping"
    /\ LET out == createFrames(audioData, options.windowSize, options.hopSize)
       IN  /\ featStatus' = out.status
           /\ featResult' = out.frames
    /\ featCall' = "createFrames"
    /\ UNCHANGED <<audioData, sampleRate, options>>

ExtractFeatures ==
    /\ featStatus # "looping"
    /\ LET out == extractFeatures(audioData, sampleRate, options)
       IN  /\ featStatus' = out.status
           /\ featResult' = out.features
    /\ featCall' = "extractFeatures"
    /\ UNCHANGED <<audioData, sampleRate, options>>

ProcessAudioFrames ==
    /\ featStatus # "looping"
    /\ LET out == processAudioFrames(audioData, sampleRate,
                                     options.windowSize, options.hopSize)
       IN  /\ featStatus' = out.status
           /\ featResult' = out.features
    /\ featCall' = "processAudioFrames"
    /\ UNCHANGED <<audioData, sampleRate, options>>

(***************************************************************************)
(* The streaming worklet: FeatureExtractorProcessor.  currentTime, the     *)
(* global of the AudioWorklet scope, is the context time at the start of   *)
(* the block being processed; it is kept as the frame count clock, and     *)
(* currentTime = clock / sampleRate.  Of the spectral features the model   *)
(* keeps the control flow of fft, on which the return of processFrame      *)
(* depends; the values of the spectrum, the centroid, the MFCC and the     *)
(* message envelope's Date.now() are not represented.                      *)
(***************************************************************************)
MaxBuffer == 4
MaxBlock == 3
MaxStream == 6

BufferSizes == 2..MaxBuffer
\* Hop sizes below, equal to and above the smallest buffer size.
StreamHopSizes == 1..(MaxHop + 1)
StreamSamples == {0 - 1, 1}
Blocks == UNION {[1..n -> StreamSamples] : n \in 1..MaxBlock}

\* The constructor, for processorOptions that give both sizes.
FeatureExtractorProcessor(bufferSize, hopSize, rate) ==
    [bufferSize |-> bufferSize,
     hopSize |-> hopSize,
     inputBuffer |-> [i \in 1..bufferSize |-> 0],
     bufferIndex |-> 0,
     hopCounter |-> 0,
     sampleRate |-> rate,
     window |-> [i \in 1..bufferSize |->
                    WindowValue("hamming", i - 1, bufferSize)]]

\* Mutant of ReorderedFrame: the buffer is read from its first cell on.
ReorderedFrameFromStart(w) ==
    [i \in 1..w.bufferSize |-> Times(w.inputBuffer[i], w.window[i])]

\* The first loop of processFrame: the circular buffer read from bufferIndex
\* on, each sample times the window coefficient of its place in the frame.
ReorderedFrame(w) ==
    [i \in 1..w.bufferSize |->
        Times(w.inputBuffer[((w.bufferIndex + i - 1) % w.bufferSize) + 1],
              w.window[i])]

\* The inner loop of the bit reversal, while (k <= j) { j -= k; k >>= 1; }.
\* Once k is 0 with j >= 0 the body changes neither variable and the test
\* stays true: the loop never ends.
RECURSIVE ReverseCarry(_, _)
ReverseCarry(j, k) ==
    IF k <= j
    THEN IF k = 0
         THEN [j |-> j, k |-> k, loops |-> TRUE]
         ELSE ReverseCarry(j - k, k \div 2)
    ELSE [j |-> j, k |-> k, loops |-> FALSE]

\* The bit-reversal loop of fft, for (i = 0; i < N; i++), from index i on
\* with the reversed index j.  The swaps do not touch i, j or k.
RECURSIVE BitReversal(_, _, _)
BitReversal(N, i, j) ==
    IF ~(i < N) THEN [loops |-> FALSE, i |-> i]
    ELSE LET carry == ReverseCarry(j, N \div 2)
         IN  IF carry.loops THEN [loops |-> TRUE, i |-> i]
             ELSE BitReversal(N, i + 1, carry.j + carry.k)

\* The butterfly loops, for (size = 2; size <= N; size *= 2) around two
\* counted loops: the number of butterflies computed.
RECURSIVE Butterflies(_, _)
Butterflies(N, size) ==
    IF size <= N
    THEN (size \div 2) * Cardinality({i \in 0..(N - 1) : i % size = 0})
            + Butterflies(N, size * 2)
    ELSE 0

\* fft on a frame of N samples: whether it returns, and after how many
\* butterflies.
fft(N) ==
    LET reversal == BitReversal(N, 0, 0)
    IN  [returned |-> ~reversal.loops,
         stuckAt |-> reversal.i,
         butterflies |-> IF reversal.loops THEN 0 ELSE Butterflies(N, 2)]

\* processFrame: the features object is built field by field (energy,
\* zeroCrossingRate, then spectralCentroid, which calls fft) and posted.
\* now is the clock of the block being processed.
processFrame(w, now) ==
    LET frame == ReorderedFrame(w)
        energy == calculateEnergy(frame)
        zeroCrossingRate == calculateZeroCrossingRate(frame)
        spectrum == fft(Len(frame))
    IN  [returned |-> spectrum.returned,
         message |-> [type |-> "features",
                      data |-> [energy |-> energy,
                                zeroCrossingRate |-> zeroCrossingRate,
                                timestamp |-> Rat(now, w.sampleRate)]]]

\* The loop of process from sample i of the block on: out holds what has
\* been posted so far and the frames processFrame has built.  When
\* processFrame does not return, neither does process.
RECURSIVE ProcessLoop(_, _, _, _, _)
ProcessLoop(w, inputChannel, i, now, out) ==
    IF i > Len(inputChannel)
    THEN [worklet |-> w, posted |-> out.posted, frames |-> out.frames,
          returned |-> TRUE]
    ELSE LET w1 == [w EXCEPT !.inputBuffer[w.bufferIndex + 1] = inputChannel[i],
                             !.bufferIndex = (w.bufferIndex + 1) % w.bufferSize,
                             !.hopCounter = w.hopCounter + 1]
             w2 == [w1 EXCEPT !.hopCounter = 0]
             call == processFrame(w2, now)
             built == Append(out.frames, ReorderedFrame(w2))
         IN  IF w1.hopCounter >= w1.hopSize
             THEN IF call.returned
                  THEN ProcessLoop(w2, inputChannel, i + 1, now,
                                   [posted |-> Append(out.posted, call.message),
                                    frames |-> built])
                  ELSE [worklet |-> w2, posted |-> out.posted,
                        frames |-> built, returned |-> FALSE]
             ELSE ProcessLoop(w1, inputChannel, i + 1, now, out)

VARIABLES
    worklet,         \* the FeatureExtractorProcessor object
    clock,           \* frames rendered by the context: currentTime * sampleRate
    consumed,        \* input samples handed to process() so far
    posted,          \* the messages posted on the port, oldest first
    stream,          \* the input samples handed to process(), oldest first
    frames,          \* the frames processFrame has built, oldest first
    workletPc        \* "ready", or "looping" inside a process() call

workletVars == <<worklet, clock, consumed, posted, stream, frames, workletPc>>

WorkletConstructed ==
    /\ \E bufferSize \in BufferSizes, hopSize \in StreamHopSizes,
          rate \in SampleRates :
          worklet = FeatureExtractorProcessor(bufferSize, hopSize, rate)
    /\ clock = 0
    /\ consumed = 0
    /\ posted = << >>
    /\ stream = << >>
    /\ frames = << >>
    /\ workletPc = "ready"

\* No worklet node in use: the processor as first constructed.
WorkletIdle ==
    /\ \E rate \in SampleRates :
          worklet = FeatureExtractorProcessor(2, 1, rate)
    /\ clock = 0
    /\ consumed = 0
    /\ posted = << >>
    /\ stream = << >>
    /\ frames = << >>
    /\ workletPc = "ready"

\* One call of process() with an input block; when it returns, the clock
\* moves on by the length of the block.  A call that does not return holds
\* the rendering thread: no later block is processed.
Process ==
    \E inputChannel \in Blocks :
        /\ workletPc = "ready"
        /\ clock + Len(inputChannel) <= MaxStream
        /\ LET out == ProcessLoop(worklet, inputChannel, 1, clock,
                                  [posted |-> posted, frames |-> frames])
           IN  /\ worklet' = out.worklet
               /\ posted' = out.posted
               /\ frames' = out.frames
               /\ workletPc' = IF out.returned THEN "ready" ELSE "looping"
               /\ clock' = IF out.returned THEN clock + Len(inputChannel)
                                           ELSE clock
        /\ consumed' = consumed + Len(inputChannel)
        /\ stream' = stream \o inputChannel

\* process() with no input connected returns at once; the block still
\* takes its time.
ProcessNoInput ==
    \E quantum \in 1..MaxBlock :
        /\ workletPc = "ready"
        /\ clock + quantum <= MaxStream
        /\ clock' = clock + quantum
        /\ UNCHANGED <<worklet, consumed, posted, stream, frames, workletPc>>

(***************************************************************************)
(* WasmAnalysisService: the loading of the three WASM modules, and         *)
(* analyzeRecitation with its three stages extractWasmMFCC, performWasmDTW *)
(* and performWasmHMM.  The WASM heap is the list of the allocations made  *)
(* so far, each with the number of times it was passed to free; a pointer  *)
(* is an index of the list.  Feature values are not represented: a buffer  *)
(* is known by the number of values written to it and read from it.  A     *)
(* call into a module may trap (the module aborts, a RuntimeError in the   *)
(* caller), and a typed-array view that reaches past the end of the heap   *)
(* throws; both are inputs of the analysis.  malloc itself does not fail.  *)
(***************************************************************************)
MaxAudioBlocks == 6
MaxAnalyses == 2

WasmFrameSize == 2048
WasmHopSize == 512
FeaturesPerFrame == 13 + 4

\* Lengths of the recorded channel: around every multiple of the hop.
AudioLengths ==
    {WasmHopSize * k + r : k \in 0..MaxAudioBlocks, r \in {0, 1, WasmHopSize - 1}}

WasmFaults ==
    {"none", "process_audio_features", "featuresHeap",
     "compute_normalized_dtw", "forward_algorithm"}

NoModules == [dtwModule |-> FALSE, hmmModule |-> FALSE, audioModule |-> FALSE]
AllModules == [dtwModule |-> TRUE, hmmModule |-> TRUE, audioModule |-> TRUE]

malloc(heap, buffer) == Append(heap, [buffer |-> buffer, frees |-> 0])

free(heap, ptr) == [heap EXCEPT ![ptr].frees = @ + 1]

\* The frame loop of processAudioFrames and of extractFallbackMFCC:
\* for (i = 0; i <= length - frameSize; i += hopSize), counted.
RECURSIVE CountFrames(_, _, _, _)
CountFrames(length, frameSize, hopSize, i) ==
    IF i <= length - frameSize
    THEN 1 + CountFrames(length, frameSize, hopSize, i + hopSize)
    ELSE 0

\* The number of doubles process_audio_features writes to the buffer it
\* returns: every frame has 13 MFCC, energy, ZCR, centroid and pitch.
process_audio_features(data_len, frame_size) ==
    LET hopSize == frame_size \div 2
        features == CountFrames(data_len, frame_size, hopSize, 0)
    IN  features * (IF features = 0 THEN 0 ELSE FeaturesPerFrame)

extractFallbackMFCC(length) == CountFrames(length, WasmFrameSize, WasmHopSize, 0)

Thrown(heap, error) ==
    [heap |-> heap, error |-> error, frames |-> 0, read |-> 0, written |-> 0]

extractWasmMFCC(mods, heap, length, fault) ==
    IF mods.audioModule
    THEN LET h1 == malloc(heap, "dataPtr")
             dataPtr == Len(h1)
         IN  IF fault = "process_audio_features"
             THEN Thrown(free(h1, dataPtr), "RuntimeError")
             ELSE LET written == process_audio_features(length, WasmFrameSize)
                      h2 == malloc(h1, "featuresPtr")
                      featuresPtr == Len(h2)
                      numFrames ==
                          ((length - WasmFrameSize) \div WasmHopSize) + 1
                      read == numFrames * FeaturesPerFrame
                  IN  IF read < 0 \/ (read > written /\ fault = "featuresHeap")
                      THEN [heap |-> free(h2, dataPtr), error |-> "RangeError",
                            frames |-> 0, read |-> 0, written |-> written]
                      ELSE [heap |-> free(free(h2, featuresPtr), dataPtr),
                            error |-> "none", frames |-> numFrames,
                            read |-> read, written |-> written]
    ELSE [heap |-> heap, error |-> "none",
          frames |-> extractFallbackMFCC(length), read |-> 0, written |-> 0]

performWasmDTW(mods, heap, fault) ==
    IF ~mods.dtwModule
    THEN [heap |-> heap, error |-> "DTW module not loaded"]
    ELSE LET h1 == malloc(heap, "queryPtr")
             queryPtr == Len(h1)
             h2 == malloc(h1, "refPtr")
             refPtr == Len(h2)
         IN  [heap |-> free(free(h2, queryPtr), refPtr),
              error |-> IF fault = "compute_normalized_dtw"
                        THEN "RuntimeError" ELSE "none"]

performWasmHMM(mods, heap, fault) ==
    IF ~mods.hmmModule
    THEN [heap |-> heap, error |-> "HMM module not loaded"]
    ELSE LET h1 == malloc(heap, "obsPtr")
             obsPtr == Len(h1)
             h2 == malloc(h1, "transPtr")
             transPtr == Len(h2)
             h3 == malloc(h2, "emissPtr")
             emissPtr == Len(h3)
             h4 == malloc(h3, "initialPtr")
             initialPtr == Len(h4)
         IN  [heap |-> free(free(free(free(h4, obsPtr), transPtr), emissPtr),
                            initialPtr),
              error |-> IF fault = "forward_algorithm"
                        THEN "RuntimeError" ELSE "none"]

\* The executor of the promise analyzeRecitation returns: the three stages
\* in a try block, resolve at its end, reject in its catch.
Analyse(mods, heap, length, fault) ==
    LET mfcc == extractWasmMFCC(mods, heap, length, fault)
        dtw == performWasmDTW(mods, mfcc.heap, fault)
        hmmStage == performWasmHMM(mods, dtw.heap, fault)
        settled(h, pc, error) ==
            [heap |-> h,
             analysis |-> [pc |-> pc, audioLength |-> length, error |-> error,
                           wasm |-> mods.audioModule,
                           read |-> mfcc.read, written |-> mfcc.written]]
    IN  IF mfcc.error # "none" THEN settled(mfcc.heap, "rejected", mfcc.error)
        ELSE IF dtw.error # "none" THEN settled(dtw.heap, "rejected", dtw.error)
        ELSE IF hmmStage.error # "none"
             THEN settled(hmmStage.heap, "rejected", hmmStage.error)
        ELSE settled(hmmStage.heap, "resolved", "none")

VARIABLES
    initialized,     \* the field of the service
    wasmModules,     \* which of dtwModule, hmmModule, audioModule are set
    loadPc,          \* the promise of loadWasmModules
    initPc,          \* the call of initialize: idle, racing or done
    wasmHeap,        \* the allocations made on the WASM heap
    analysis,        \* the latest analyzeRecitation call
    analyses         \* analyzeRecitation calls made so far

svcVars ==
    <<initialized, wasmModules, loadPc, initPc, wasmHeap, analysis, analyses>>

NoAnalysis ==
    [pc |-> "none", audioLength |-> 0, error |-> "none", wasm |-> FALSE,
     read |-> 0, written |-> 0]

ServiceConstructed ==
    /\ initialized = FALSE
    /\ wasmModules = NoModules
    /\ loadPc = "idle"
    /\ initPc = "idle"
    /\ wasmHeap = << >>
    /\ analysis = NoAnalysis
    /\ analyses = 0

\* initialize() reaches the end of its try block or of its catch block; an
\* analyzeRecitation call that awaits it goes on with the modules as they
\* are at that moment.
InitializeCompletes(mods) ==
    /\ initialized' = TRUE
    /\ initPc' = "done"
    /\ IF analysis.pc = "awaiting"
       THEN \E fault \in WasmFaults :
               LET out == Analyse(mods, wasmHeap, analysis.audioLength, fault)
               IN  /\ wasmHeap' = out.heap
                   /\ analysis' = out.analysis
       ELSE UNCHANGED <<wasmHeap, analysis>>

\* initialize() called by the application: the race of loadWasmModules
\* against the 3-second timer begins.
Initialize ==
    /\ ~initialized
    /\ initPc = "idle"
    /\ initPc' = "racing"
    /\ loadPc' = "pending"
    /\ UNCHANGED <<initialized, wasmModules, wasmHeap, analysis, analyses>>

\* The three scripts have loaded: loadWasmModules sets the three fields.
LoadResolves ==
    /\ loadPc = "pending"
    /\ loadPc' = "resolved"
    /\ wasmModules' = AllModules
    /\ IF initPc = "racing"
       THEN InitializeCompletes(AllModules)
       ELSE UNCHANGED <<initialized, initPc, wasmHeap, analysis>>
    /\ UNCHANGED analyses

\* One of the scripts fails to load: Promise.all rejects, no field is set.
LoadRejects ==
    /\ loadPc = "pending"
    /\ loadPc' = "rejected"
    /\ IF initPc = "racing"
       THEN InitializeCompletes(wasmModules)
       ELSE UNCHANGED <<initialized, initPc, wasmHeap, analysis>>
    /\ UNCHANGED <<wasmModules, analyses>>

\* The timer of the race fires first; the load goes on in the background.
LoadTimeout ==
    /\ initPc = "racing"
    /\ loadPc = "pending"
    /\ InitializeCompletes(wasmModules)
    /\ UNCHANGED <<wasmModules, loadPc, analyses>>

\* analyzeRecitation called with a recording of some length, while no
\* initialize() is in flight.
AnalyzeRecitation ==
    \E length \in AudioLengths :
        /\ analyses < MaxAnalyses
        /\ analysis.pc # "awaiting"
        /\ initPc # "racing"
        /\ analyses' = analyses + 1
        /\ IF initialized
           THEN /\ \E fault \in WasmFaults :
                      LET out == Analyse(wasmModules, wasmHeap, length, fault)
                      IN  /\ wasmHeap' = out.heap
                          /\ analysis' = out.analysis
                /\ UNCHANGED <<initialized, wasmModules, loadPc, initPc>>
           ELSE /\ analysis' = [NoAnalysis EXCEPT !.pc = "awaiting",
                                                  !.audioLength = length]
                /\ initPc' = "racing"
                /\ loadPc' = "pending"
                /\ UNCHANGED <<initialized, wasmModules, wasmHeap>>

(***************************************************************************)
(* AudioService: the recording life cycle.  startRecording is an async     *)
(* method; it runs synchronously up to each await and is resumed later, so *)
(* every invocation has a position startPc[c] and the steps of different   *)
(* invocations interleave at the awaits.  The browser's MediaStream and    *)
(* MediaRecorder objects are kept in creation order; a field holding null  *)
(* holds NoObject.                                                         *)
(***************************************************************************)
MaxStartCalls == 2

StartCalls == 1..MaxStartCalls

NoObject == 0

VARIABLES audioService, mediaStreams, mediaRecorders, startPc, startOverlaps,
          stopPc

recVars ==
    <<audioService, mediaStreams, mediaRecorders, startPc, startOverlaps,
      stopPc>>

\* The fields of a new AudioService; no browser object exists yet.
AudioServiceConstructed(enableRealTimeProcessing) ==
    /\ audioService = [isRecording |-> FALSE,
                       stream |-> NoObject,
                       mediaRecorder |-> NoObject,
                       audioContext |-> FALSE,
                       analyzerNode |-> FALSE,
                       enableRealTimeProcessing |-> enableRealTimeProcessing]
    /\ mediaStreams = << >>
    /\ mediaRecorders = << >>
    /\ startPc = [c \in StartCalls |-> "idle"]
    /\ startOverlaps = [c \in StartCalls |-> FALSE]
    /\ stopPc = "idle"

RecorderIdle == AudioServiceConstructed(FALSE)

\* cleanup(): stops the tracks of the stream the field refers to (a
\* MediaRecorder whose tracks have all ended becomes inactive) and clears the
\* fields.  Objects the fields no longer refer to are left as they are.
cleanup(w) ==
    LET held == w.service.stream
    IN  [service |-> [w.service EXCEPT !.stream = NoObject,
                                       !.analyzerNode = FALSE,
                                       !.mediaRecorder = NoObject,
                                       !.isRecording = FALSE],
         streams |-> [i \in DOMAIN w.streams |->
                         IF i = held THEN "ended" ELSE w.streams[i]],
         recorders |-> [r \in DOMAIN w.recorders |->
                           IF w.recorders[r].stream = held
                           THEN [w.recorders[r] EXCEPT !.state = "inactive"]
                           ELSE w.recorders[r]]]

\* The catch block of startRecording.
StartFailed(w) == [world |-> cleanup(w), pc |-> "failed"]

\* new MediaRecorder(this.stream), start(100), isRecording = true.  The
\* constructor throws a TypeError when the field holds null.
StartMediaRecorder(w) ==
    IF w.service.stream = NoObject
    THEN StartFailed(w)
    ELSE [world |-> [w EXCEPT
                       !.recorders = Append(@, [stream |-> w.service.stream,
                                                state |-> "recording"]),
                       !.service.mediaRecorder = Len(w.recorders) + 1,
                       !.service.isRecording = TRUE],
          pc |-> "started"]

\* createMediaStreamSource(this.stream), the analyser, and the await of
\* setupRealTimeProcessing when real-time processing is enabled.
ConnectSource(w) ==
    IF w.service.stream = NoObject
    THEN StartFailed(w)
    ELSE LET connected == [w EXCEPT !.service.analyzerNode = TRUE]
         IN  IF w.service.enableRealTimeProcessing
             THEN [world |-> connected, pc |-> "setupRealTimeProcessing"]
             ELSE StartMediaRecorder(connected)

\* if (audioContext.state === 'suspended') await audioContext.resume()
ResumeContext(w, suspended) ==
    IF suspended THEN [world |-> w, pc |-> "resume"] ELSE ConnectSource(w)

\* The continuation after getUserMedia resolves: the new stream is stored
\* in the field, and the first invocation to get here creates the
\* AudioContext and awaits loadAudioWorklet.
StreamObtained(w, suspended) ==
    LET obtained == [w EXCEPT !.streams = Append(@, "live"),
                              !.service.stream = Len(w.streams) + 1]
    IN  IF ~w.service.audioContext
        THEN [world |-> [obtained EXCEPT !.service.audioContext = TRUE],
              pc |-> "loadAudioWorklet"]
        ELSE ResumeContext(obtained, suspended)

World ==
    [service |-> audioService, streams |-> mediaStreams,
     recorders |-> mediaRecorders]

Continue(c, step) ==
    /\ audioService' = step.world.service
    /\ mediaStreams' = step.world.streams
    /\ mediaRecorders' = step.world.recorders
    /\ startPc' = [startPc EXCEPT ![c] = step.pc]
    /\ UNCHANGED <<startOverlaps, stopPc>>

\* startRecording up to its first await: the isRecording test, then the
\* request for the microphone.  startOverlaps records whether the call was
\* issued while an earlier one awaited the microphone or a recording ran.
StartRecording ==
    \E c \in StartCalls :
        /\ startPc[c] = "idle"
        /\ \A d \in StartCalls : d < c => startPc[d] # "idle"
        /\ startOverlaps' =
               [startOverlaps EXCEPT ![c] =
                   \/ audioService.isRecording
                   \/ \E d \in StartCalls : startPc[d] = "getUserMedia"]
        /\ startPc' = [startPc EXCEPT ![c] =
               IF audioService.isRecording THEN "rejected"
               ELSE "getUserMedia"]
        /\ UNCHANGED <<audioService, mediaStreams, mediaRecorders, stopPc>>

GetUserMediaResolves ==
    \E c \in StartCalls, suspended \in BOOLEAN :
        /\ startPc[c] = "getUserMedia"
        /\ Continue(c, StreamObtained(World, suspended))

GetUserMediaRejects ==
    \E c \in StartCalls :
        /\ startPc[c] = "getUserMedia"
        /\ Continue(c, StartFailed(World))

\* loadAudioWorklet catches the failure of addModule, so it always resolves.
LoadAudioWorkletSettles ==
    \E c \in StartCalls, suspended \in BOOLEAN :
        /\ startPc[c] = "loadAudioWorklet"
        /\ Continue(c, ResumeContext(World, suspended))

ResumeResolves ==
    \E c \in StartCalls :
        /\ startPc[c] = "resume"
        /\ Continue(c, ConnectSource(World))

SetupRealTimeProcessingResolves ==
    \E c \in StartCalls :
        /\ startPc[c] = "setupRealTimeProcessing"
        /\ Continue(c, StartMediaRecorder(World))

\* stopRecording up to the end of its executor: the recorder is stopped and
\* isRecording is cleared; the completion of the recording is pending.
StopRecording ==
    /\ audioService.isRecording
    /\ audioService.mediaRecorder # NoObject
    /\ stopPc = "idle"
    /\ mediaRecorders' =
           [mediaRecorders EXCEPT ![audioService.mediaRecorder].state =
               "inactive"]
    /\ audioService' = [audioService EXCEPT !.isRecording = FALSE]
    /\ stopPc' = "completing"
    /\ UNCHANGED <<mediaStreams, startPc, startOverlaps>>

\* handleRecordingComplete settles, or the 5 s timer fires first: every one
\* of these paths ends in cleanup().
RecordingCompletes ==
    /\ stopPc = "completing"
    /\ audioService' = cleanup(World).service
    /\ mediaStreams' = cleanup(World).streams
    /\ mediaRecorders' = cleanup(World).recorders
    /\ stopPc' = "idle"
    /\ UNCHANGED <<startPc, startOverlaps>>

(***************************************************************************)
(* The specifications.  Each drives one component with inputs drawn from   *)
(* its input sets; the other components stay as constructed.               *)
(***************************************************************************)
vars == <<dtwVars, callVars, historyVars, hmmVars, featVars, workletVars, svcVars, recVars>>

InitDTW ==
    /\ seqA \in FeatureSequences
    /\ seqB \in FeatureSequences
    /\ DtwConstructed /\ NoInvocation /\ NoHistory
    /\ observations = << >>
    /\ HmmConstructed
    /\ NoAudio /\ FeaturesIdle
    /\ WorkletIdle
    /\ ServiceConstructed
    /\ RecorderIdle

NextDTW ==
    \/ Compute /\ UNCHANGED <<callVars, historyVars, hmmVars, featVars, workletVars, svcVars, recVars>>
    \/ ComputeConstrained /\ UNCHANGED <<callVars, historyVars, hmmVars, featVars, workletVars, svcVars, recVars>>
    \/ ComputeNormalizedDistance /\ UNCHANGED <<callVars, historyVars, hmmVars, featVars, workletVars, svcVars, recVars>>
    \/ ComputeDtwDistance /\ UNCHANGED <<callVars, historyVars, hmmVars, featVars, workletVars, svcVars, recVars>>

SpecDTW == InitDTW /\ [][NextDTW]_vars

InitShared ==
    /\ seqA \in FeatureSequences
    /\ seqB \in FeatureSequences
    /\ Len(seqA) = Len(seqB)
    /\ DtwConstructed /\ NoInvocation /\ NoHistory
    /\ observations = << >>
    /\ HmmConstructed
    /\ NoAudio /\ FeaturesIdle
    /\ WorkletIdle
    /\ ServiceConstructed
    /\ RecorderIdle

NextShared ==
    \/ \E t \in Invocations :
          Enter(t) /\ UNCHANGED <<historyVars, hmmVars, featVars, workletVars, svcVars, recVars>>
    \/ \E t \in Invocations :
          FillNextRow(t) /\ UNCHANGED <<historyVars, hmmVars, featVars, workletVars, svcVars, recVars>>
    \/ \E t \in Invocations :
          BacktrackAndReturn(t) /\ UNCHANGED <<historyVars, hmmVars, featVars, workletVars, svcVars, recVars>>

SpecShared == InitShared /\ [][NextShared]_vars

\* Sequences of one-dimensional feature vectors.
ScalarSequences == UNION {[1..n -> Vectors1] : n \in 0..MaxLen}

\* The DTW object driven as in SpecDTW, with the operation before the last
\* one remembered.
InitReuse ==
    /\ seqA \in ScalarSequences
    /\ seqB \in ScalarSequences
    /\ DtwConstructed /\ NoInvocation /\ NoHistory
    /\ observations = << >>
    /\ HmmConstructed
    /\ NoAudio /\ FeaturesIdle
    /\ WorkletIdle
    /\ ServiceConstructed
    /\ RecorderIdle

NextReuse ==
    \/ /\ Compute
       /\ dtwEarlier' = dtwCall.op
       /\ UNCHANGED <<callVars, hmmVars, featVars, workletVars, svcVars, recVars>>
    \/ /\ ComputeConstrained
       /\ dtwEarlier' = dtwCall.op
       /\ UNCHANGED <<callVars, hmmVars, featVars, workletVars, svcVars, recVars>>
    \/ /\ ComputeNormalizedDistance
       /\ dtwEarlier' = dtwCall.op
       /\ UNCHANGED <<callVars, hmmVars, featVars, workletVars, svcVars, recVars>>

SpecReuse == InitReuse /\ [][NextReuse]_vars

InitHMM ==
    /\ observations \in ObservationSequences
    /\ HmmConstructed
    /\ seqA = << >>
    /\ seqB = << >>
    /\ DtwConstructed /\ NoInvocation /\ NoHistory
    /\ NoAudio /\ FeaturesIdle
    /\ WorkletIdle
    /\ ServiceConstructed
    /\ RecorderIdle

NextHMM ==
    \/ SetTransitionMatrix /\ UNCHANGED <<dtwVars, callVars, historyVars, featVars, workletVars, svcVars, recVars>>
    \/ SetEmissionMatrix /\ UNCHANGED <<dtwVars, callVars, historyVars, featVars, workletVars, svcVars, recVars>>
    \/ SetInitialProbabilities /\ UNCHANGED <<dtwVars, callVars, historyVars, featVars, workletVars, svcVars, recVars>>
    \/ Viterbi /\ UNCHANGED <<dtwVars, callVars, historyVars, featVars, workletVars, svcVars, recVars>>
    \/ Forward /\ UNCHANGED <<dtwVars, callVars, historyVars, featVars, workletVars, svcVars, recVars>>
    \/ Backward /\ UNCHANGED <<dtwVars, callVars, historyVars, featVars, workletVars, svcVars, recVars>>

SpecHMM == InitHMM /\ [][NextHMM]_vars

InitFeatures ==
    /\ audioData \in AudioBuffers
    /\ sampleRate \in SampleRates
    /\ options \in [hopSize : HopSizes, windowSize : FrameSizes,
                     windowType : WindowTypes]
    /\ FeaturesIdle
    /\ seqA = << >>
    /\ seqB = << >>
    /\ DtwConstructed /\ NoInvocation /\ NoHistory
    /\ observations = << >>
    /\ HmmConstructed
    /\ WorkletIdle
    /\ ServiceConstructed
    /\ RecorderIdle

NextFeatures ==
    \/ CreateFrames /\ UNCHANGED <<dtwVars, callVars, historyVars, hmmVars, workletVars, svcVars, recVars>>
    \/ ExtractFeatures /\ UNCHANGED <<dtwVars, callVars, historyVars, hmmVars, workletVars, svcVars, recVars>>
    \/ ProcessAudioFrames /\ UNCHANGED <<dtwVars, callVars, historyVars, hmmVars, workletVars, svcVars, recVars>>

SpecFeatures == InitFeatures /\ [][NextFeatures]_vars

InitWorklet ==
    /\ WorkletConstructed
    /\ ServiceConstructed
    /\ RecorderIdle
    /\ seqA = << >>
    /\ seqB = << >>
    /\ DtwConstructed /\ NoInvocation /\ NoHistory
    /\ observations = << >>
    /\ HmmConstructed
    /\ NoAudio /\ FeaturesIdle

NextWorklet ==
    \/ Process /\ UNCHANGED <<dtwVars, callVars, historyVars, hmmVars, featVars, svcVars, recVars>>
    \/ ProcessNoInput /\ UNCHANGED <<dtwVars, callVars, historyVars, hmmVars, featVars, svcVars, recVars>>

SpecWorklet == InitWorklet /\ [][NextWorklet]_vars


InitService ==
    /\ ServiceConstructed
    /\ RecorderIdle
    /\ seqA = << >>
    /\ seqB = << >>
    /\ DtwConstructed /\ NoInvocation /\ NoHistory
    /\ observations = << >>
    /\ HmmConstructed
    /\ NoAudio /\ FeaturesIdle
    /\ WorkletIdle

NextService ==
    \/ Initialize /\ UNCHANGED <<dtwVars, callVars, historyVars, hmmVars, featVars, workletVars, recVars>>
    \/ LoadResolves /\ UNCHANGED <<dtwVars, callVars, historyVars, hmmVars, featVars, workletVars, recVars>>
    \/ LoadRejects /\ UNCHANGED <<dtwVars, callVars, historyVars, hmmVars, featVars, workletVars, recVars>>
    \/ LoadTimeout /\ UNCHANGED <<dtwVars, callVars, historyVars, hmmVars, featVars, workletVars, recVars>>
    \/ AnalyzeRecitation /\ UNCHANGED <<dtwVars, callVars, historyVars, hmmVars, featVars, workletVars, recVars>>

SpecService == InitService /\ [][NextService]_vars

\* The recording life cycle of one AudioService, with real-time processing
\* enabled or not, under every interleaving of its startRecording calls.
InitRecorder ==
    /\ \E enableRealTimeProcessing \in BOOLEAN :
           AudioServiceConstructed(enableRealTimeProcessing)
    /\ ServiceConstructed
    /\ seqA = << >>
    /\ seqB = << >>
    /\ DtwConstructed /\ NoInvocation /\ NoHistory
    /\ observations = << >>
    /\ HmmConstructed
    /\ NoAudio /\ FeaturesIdle
    /\ WorkletIdle

NextRecorder ==
    \/ StartRecording /\ UNCHANGED <<dtwVars, callVars, historyVars, hmmVars, featVars, workletVars, svcVars>>
    \/ GetUserMediaResolves /\ UNCHANGED <<dtwVars, callVars, historyVars, hmmVars, featVars, workletVars, svcVars>>
    \/ GetUserMediaRejects /\ UNCHANGED <<dtwVars, callVars, historyVars, hmmVars, featVars, workletVars, svcVars>>
    \/ LoadAudioWorkletSettles /\ UNCHANGED <<dtwVars, callVars, historyVars, hmmVars, featVars, workletVars, svcVars>>
    \/ ResumeResolves /\ UNCHANGED <<dtwVars, callVars, historyVars, hmmVars, featVars, workletVars, svcVars>>
    \/ SetupRealTimeProcessingResolves /\ UNCHANGED <<dtwVars, callVars, historyVars, hmmVars, featVars, workletVars, svcVars>>
    \/ StopRecording /\ UNCHANGED <<dtwVars, callVars, historyVars, hmmVars, featVars, workletVars, svcVars>>
    \/ RecordingCompletes /\ UNCHANGED <<dtwVars, callVars, historyVars, hmmVars, featVars, workletVars, svcVars>>

SpecRecorder == InitRecorder /\ [][NextRecorder]_vars


(***************************************************************************)
(* Properties of the DTW specification.                                    *)
(***************************************************************************)
CallN == Len(dtwCall.seq1)
CallM == Len(dtwCall.seq2)

NonEmptyCall == CallN > 0 /\ CallM > 0

\* Both arguments non-empty and of the same feature dimensionality.
ComparableCall ==
    NonEmptyCall /\ FeatureDim(dtwCall.seq1) = FeatureDim(dtwCall.seq2)

MismatchedCall ==
    NonEmptyCall /\ FeatureDim(dtwCall.seq1) # FeatureDim(dtwCall.seq2)

ReturnedFrom(op) == dtwPc = "returned" /\ dtwCall.op = op

WarpSteps == {<<1, 0>>, <<0, 1>>, <<1, 1>>}

StepOf(p, k) == <<p[k + 1][1] - p[k][1], p[k + 1][2] - p[k][2]>>

\* A monotonic contiguous warping path from (0,0) to (n-1,m-1).
IsWarpingPath(p, n, m) ==
    /\ Len(p) >= 1
    /\ p[1] = <<0, 0>>
    /\ p[Len(p)] = <<n - 1, m - 1>>
    /\ \A k \in 1..(Len(p) - 1) : StepOf(p, k) \in WarpSteps

\* Every warping path from (0,0) to (i,j).
RECURSIVE PathsTo(_, _)
PathsTo(i, j) ==
    IF i = 0 /\ j = 0 THEN {<< <<0, 0>> >>}
    ELSE LET fromAbove == IF i > 0 THEN PathsTo(i - 1, j) ELSE {}
             fromLeft == IF j > 0 THEN PathsTo(i, j - 1) ELSE {}
             fromDiag == IF i > 0 /\ j > 0 THEN PathsTo(i - 1, j - 1) ELSE {}
         IN  {Append(p, <<i, j>>) : p \in fromAbove \cup fromLeft \cup fromDiag}

\* The sum of the local distances along a path, in the path's order.
RECURSIVE PathCost(_, _, _, _, _)
PathCost(p, seq1, seq2, metric, k) ==
    IF k > Len(p) THEN 0
    ELSE DAdd(LocalCost(seq1[p[k][1] + 1], seq2[p[k][2] + 1], metric),
              PathCost(p, seq1, seq2, metric, k + 1))

SetMin(S) == CHOOSE c \in S : \A d \in S : c <= d

MinWarpCost(seq1, seq2, metric) ==
    SetMin({PathCost(p, seq1, seq2, metric, 1) :
                p \in PathsTo(Len(seq1) - 1, Len(seq2) - 1)})

HasStep(p, d) == \E k \in 1..(Len(p) - 1) : StepOf(p, k) = d

\* C1: for non-empty sequences of equal dimensionality the path compute
\* returns starts at (0,0), ends at (n-1,m-1), and each entry differs from
\* the one before it by (+1,0), (0,+1) or (+1,+1).
C1_PathMonotonicContiguous ==
    (ReturnedFrom("compute") /\ ComparableCall)
        => IsWarpingPath(dtwResult.path, CallN, CallM)

C1_Witness ==
    /\ ReturnedFrom("compute") /\ ComparableCall
    /\ HasStep(dtwResult.path, <<1, 0>>)
    /\ HasStep(dtwResult.path, <<0, 1>>)
    /\ HasStep(dtwResult.path, <<1, 1>>)

\* C2: for non-empty sequences of equal dimensionality the distance compute
\* returns is the least sum of local distances over all warping paths from
\* (0,0) to (n-1,m-1), and the returned path attains it.
C2_DistanceIsMinimalPathCost ==
    (ReturnedFrom("compute") /\ ComparableCall)
        => /\ dtwResult.distance =
                MinWarpCost(dtwCall.seq1, dtwCall.seq2, dtwCall.metric)
           /\ PathCost(dtwResult.path, dtwCall.seq1, dtwCall.seq2,
                       dtwCall.metric, 1) = dtwResult.distance

\* A call whose optimum is neither free nor the cost of the diagonal-first path.
C2_Witness ==
    /\ ReturnedFrom("compute") /\ ComparableCall
    /\ CallN = MaxLen /\ CallM = MaxLen
    /\ dtwResult.distance > 0
    /\ Len(dtwResult.path) > MaxLen
    /\ \E p \in PathsTo(CallN - 1, CallM - 1) :
          PathCost(p, dtwCall.seq1, dtwCall.seq2, dtwCall.metric, 1)
              > dtwResult.distance

Diagonal(n) == [k \in 1..n |-> <<k - 1, k - 1>>]

\* C3: aligning a non-empty sequence with itself gives distance 0 and the
\* diagonal path, also when the sequence repeats a feature vector.
C3_SelfAlignmentIsDiagonal ==
    (ReturnedFrom("compute") /\ NonEmptyCall /\ dtwCall.seq1 = dtwCall.seq2)
        => /\ dtwResult.distance = 0
           /\ dtwResult.path = Diagonal(CallN)

C3_Witness ==
    /\ ReturnedFrom("compute") /\ dtwCall.seq1 = dtwCall.seq2
    /\ CallN = MaxLen
    /\ dtwCall.seq1[1] = dtwCall.seq1[2]
    /\ dtwCall.seq1[2] # dtwCall.seq1[3]
    /\ dtwResult.path = Diagonal(CallN)

\* C4: the distance of compute is symmetric in its two sequences, under
\* the Euclidean and under the Manhattan metric.
C4_DistanceSymmetric ==
    (ReturnedFrom("compute") /\ ComparableCall)
        => dtwResult.distance =
              compute(EmptyMatrix, EmptyMatrix, dtwCall.seq2, dtwCall.seq1,
                      dtwCall.metric).distance

C4_Witness ==
    /\ ReturnedFrom("compute") /\ ComparableCall
    /\ dtwCall.metric = "manhattan"
    /\ CallN # CallM
    /\ FeatureDim(dtwCall.seq1) = 2
    /\ dtwResult.distance > 0
    /\ dtwResult.distance =
          compute(EmptyMatrix, EmptyMatrix, dtwCall.seq2, dtwCall.seq1,
                  dtwCall.metric).distance

InBand(i, j, w) == i - w <= j /\ j <= i + w

\* C5: whenever computeConstrained returns, its distance is at least the
\* distance of compute on the same sequences with the same (Euclidean)
\* metric, and every cell outside the band still holds +infinity.
C5_BandedAtLeastUnconstrained ==
    (dtwCall.op = "computeConstrained" /\ NonEmptyCall)
        => /\ dtwPc = "returned" =>
                dtwResult.distance >=
                    compute(EmptyMatrix, EmptyMatrix, dtwCall.seq1,
                            dtwCall.seq2, "euclidean").distance
           /\ \A i \in 1..CallN, j \in 1..CallM :
                ~InBand(i, j, dtwCall.windowSize) => costMatrix[i][j] = Inf

\* A band that excludes the optimum: the banded distance is finite and larger.
C5_Witness ==
    /\ ReturnedFrom("computeConstrained") /\ ComparableCall
    /\ dtwResult.distance < Inf
    /\ dtwResult.distance >
          compute(EmptyMatrix, EmptyMatrix, dtwCall.seq1, dtwCall.seq2,
                  "euclidean").distance
    /\ \E i \in 1..CallN, j \in 1..CallM : ~InBand(i, j, dtwCall.windowSize)

AlignmentOps == {"compute", "computeConstrained", "compute_dtw_distance"}

\* C6: when the two sequences differ in feature dimensionality the alignment
\* returns distance +infinity with an empty path.
C6_MismatchSentinel ==
    (dtwPc = "returned" /\ dtwCall.op \in AlignmentOps /\ MismatchedCall)
        => dtwResult.distance = Inf /\ dtwResult.path = << >>

\* C7: with an empty input sequence compute and computeConstrained return
\* distance +infinity and an empty path and leave both matrices as they were.
C7_EmptyInputSentinel ==
    [][(/\ dtwCall'.op \in {"compute", "computeConstrained"}
        /\ (Len(dtwCall'.seq1) = 0 \/ Len(dtwCall'.seq2) = 0))
          => /\ dtwPc' = "returned"
             /\ dtwResult' = [distance |-> Inf, path |-> << >>]
             /\ costMatrix' = costMatrix
             /\ pathMatrix' = pathMatrix]_vars

\* An empty-input call on an object whose matrices an earlier call has filled.
C7_Witness ==
    /\ ReturnedFrom("compute") /\ ~NonEmptyCall
    /\ dtwResult = [distance |-> Inf, path |-> << >>]
    /\ costMatrix # EmptyMatrix

\* What compute returns for the arguments of the last call on an object
\* fresh from its constructor.
FreshResult ==
    LET out == compute(EmptyMatrix, EmptyMatrix, dtwCall.seq1, dtwCall.seq2,
                       dtwCall.metric)
    IN  [distance |-> out.distance, path |-> out.path]

\* C18: whatever calls were made on the object before, with sequences of
\* whatever sizes, compute returns the distance and path it returns on a
\* fresh object.
C18_ResultDependsOnArgumentsOnly ==
    ReturnedFrom("compute") => dtwResult = FreshResult

\* compute has returned a positive distance on an object that
\* computeConstrained had used before for a longer second sequence.
C18_Witness ==
    /\ ReturnedFrom("compute")
    /\ dtwEarlier = "computeConstrained"
    /\ NonEmptyCall
    /\ CallM < Len(seqB)
    /\ dtwResult.distance > 0
    /\ Len(dtwResult.path) > 1

\* What compute returns for the arguments of invocation t when it runs alone.
AloneResult(t) ==
    LET out == compute(EmptyMatrix, EmptyMatrix, ArgsOf(t).seq1,
                       ArgsOf(t).seq2, "euclidean")
    IN  [distance |-> out.distance, path |-> out.path]

\* C17: two invocations of compute on one object whose steps interleave
\* each return, and each returns the result it returns when run alone.
C17_InterleavedInvocationsIndependent ==
    \A t \in Invocations :
        /\ invocation[t].pc # "looping"
        /\ invocation[t].pc = "returned" =>
              invocation[t].result = AloneResult(t)

(***************************************************************************)
(* Properties of the HMM specification.                                    *)
(***************************************************************************)
ObsT == Len(observations)

\* Every row of the two matrices and the initial distribution sum to 1.
ValidModel ==
    /\ \A i \in StateIds(hmm) :
          /\ RowSum(hmm.transitionMatrix[i], 0, hmm.numStates) = ROne
          /\ RowSum(hmm.emissionMatrix[i], 0, hmm.numObservations) = ROne
    /\ RowSum(hmm.initialProbabilities, 0, hmm.numStates) = ROne

InRangeObservations ==
    \A k \in 1..ObsT : observations[k] < hmm.numObservations

StatePaths == [0..(ObsT - 1) -> StateIds(hmm)]

\* log initial + log emissions + log transitions along a state path q,
\* from step t down to step 0.
RECURSIVE JointUpTo(_, _)
JointUpTo(q, t) ==
    IF t = 0
    THEN LogAdd(Log(hmm.initialProbabilities[q[0]]),
                Log(hmm.emissionMatrix[q[0]][observations[1]]))
    ELSE LogAdd(JointUpTo(q, t - 1),
                LogAdd(Log(hmm.transitionMatrix[q[t - 1]][q[t]]),
                       Log(hmm.emissionMatrix[q[t]][observations[t + 1]])))

Joint(q) == JointUpTo(q, ObsT - 1)

\* C8: for a non-empty sequence of known symbols viterbi returns a state
\* path of length T whose joint log-probability is the returned
\* pathLogProbability, and no state sequence has a higher one.
C8_ViterbiPathIsMostProbable ==
    (hmmCall = "viterbi" /\ ObsT > 0 /\ InRangeObservations)
        => /\ hmmResult.path \in StatePaths
           /\ Joint(hmmResult.path) = hmmResult.probability
           /\ \A q \in StatePaths :
                ~LogGreater(Joint(q), hmmResult.probability)

\* A decoded path that changes state, with possible but less probable rivals.
C8_Witness ==
    /\ hmmCall = "viterbi" /\ hmmPc = "ready" /\ ObsT = MaxT
    /\ hmmResult.probability # NegInf
    /\ hmmResult.path[0] # hmmResult.path[1]
    /\ hmmResult.path[1] # hmmResult.path[2]
    /\ \E q \in StatePaths :
          /\ Joint(q) # NegInf
          /\ LogGreater(hmmResult.probability, Joint(q))

ViterbiProbability ==
    IF hmmCall = "viterbi" THEN hmmResult.probability
    ELSE viterbi(hmm, observations).probability

ForwardProbability ==
    IF hmmCall = "forward" THEN hmmResult.probability
    ELSE forward(hmm, observations).probability

\* C9: for a valid model and a non-empty observation sequence the
\* pathLogProbability of viterbi is at most the total log-likelihood of forward.
C9_ViterbiAtMostForward ==
    (hmmCall \in {"viterbi", "forward"} /\ ValidModel /\ ObsT > 0)
        => ~LogGreater(ViterbiProbability, ForwardProbability)

\* Several possible paths: the best one is strictly less likely than all together.
C9_Witness ==
    /\ hmmCall = "viterbi" /\ ValidModel /\ ObsT = MaxT
    /\ hmmResult.probability # NegInf
    /\ LogGreater(ForwardProbability, hmmResult.probability)

\* logSum over the states s of alpha[t][s] + beta[t][s], in index order.
RECURSIVE AlphaBetaSum(_, _, _, _)
AlphaBetaSum(alphaRow, betaRow, s, acc) ==
    IF s >= hmm.numStates THEN acc
    ELSE AlphaBetaSum(alphaRow, betaRow, s + 1,
                      logSum(acc, LogAdd(alphaRow[s], betaRow[s])))

\* C10: for a valid model and a non-empty sequence of known symbols,
\* logSum_s(alpha[t][s] + beta[t][s]) is the same at every time step t and
\* equals the total likelihood forward returns.
C10_ForwardBackwardAgree ==
    (hmmCall = "backward" /\ hmmPc # "trapped" /\ ValidModel /\ ObsT > 0
        /\ InRangeObservations)
        => LET fwd == forward(hmm, observations)
           IN  \A t \in 0..(ObsT - 1) :
                  AlphaBetaSum(fwd.alpha[t], hmmResult[t], 0, NegInf)
                      = fwd.probability

C10_Witness ==
    /\ hmmCall = "backward" /\ hmmPc = "ready" /\ ObsT = MaxT
    /\ forward(hmm, observations).probability \notin {NegInf, Log(ROne)}
    /\ hmmResult[0][0] # hmmResult[0][1]
    /\ hmmResult[0][0] # NegInf /\ hmmResult[0][1] # NegInf
    /\ \A t \in 0..(ObsT - 1) :
          AlphaBetaSum(forward(hmm, observations).alpha[t], hmmResult[t],
                       0, NegInf) = forward(hmm, observations).probability

\* The steps t (from 0) whose symbol the model does not know.
UnknownSteps ==
    {t \in 0..(ObsT - 1) : observations[t + 1] >= hmm.numObservations}

\* C11: when some o_t is >= numObservations, viterbi and forward return (no
\* error), every lattice value they hand back for step t and for every
\* later step is -infinity, and the path log-probability of viterbi and the
\* likelihood of forward are -infinity.
C11_UnknownSymbolPropagates ==
    \A t \in UnknownSteps :
        /\ hmmCall = "viterbi" =>
              /\ hmmResult.probability = NegInf
              /\ DOMAIN hmmResult.path = 0..(ObsT - 1)
              /\ \A u \in t..(ObsT - 1) : hmmResult.probabilities[u] = NegInf
        /\ hmmCall = "forward" =>
              /\ hmmResult.probability = NegInf
              /\ \A u \in t..(ObsT - 1) :
                    \A i \in StateIds(hmm) : hmmResult.alpha[u][i] = NegInf

\* forward has run on a sequence whose unknown symbol comes after a step of
\* finite likelihood and before a known symbol.
C11_Witness ==
    /\ hmmCall = "forward"
    /\ hmmPc = "ready"
    /\ \E t \in UnknownSteps :
          /\ t >= 1 /\ t + 1 <= ObsT - 1
          /\ observations[t + 2] < hmm.numObservations
          /\ \E i \in StateIds(hmm) : hmmResult.alpha[t - 1][i] # NegInf
          /\ \A i \in StateIds(hmm) :
                /\ hmm.emissionMatrix[i][observations[t + 2]] # RZero
                /\ \A j \in StateIds(hmm) : hmm.transitionMatrix[i][j] # RZero

\* C12: on an empty observation sequence viterbi returns an empty path with
\* probability -infinity and forward returns likelihood -infinity with an
\* empty lattice, whatever the matrices of the model hold (set or not):
\* both return before they read the model.
C12_EmptyObservations ==
    ObsT = 0 =>
        /\ hmmCall = "viterbi" =>
              hmmResult = [path |-> << >>, probability |-> NegInf,
                           probabilities |-> << >>]
        /\ hmmCall = "forward" =>
              hmmResult = [probability |-> NegInf, alpha |-> << >>]

\* forward has returned for the empty sequence on a model whose matrices
\* the caller has set.
C12_Witness ==
    /\ ObsT = 0
    /\ hmmCall = "forward"
    /\ hmmPc = "ready"
    /\ hmm.initialProbabilities # [i \in StateIds(hmm) |-> RZero]


\* C20: the argument of every log in the decoder is floored to a positive
\* epsilon, so with a valid model and known symbols only, no value that
\* viterbi or forward hands back is -infinity, zero entries in the
\* initial, transition or emission probabilities notwithstanding.
C20_NoMinusInfinityFromZeroEntries ==
    (hmmPc = "ready" /\ ValidModel /\ ObsT > 0 /\ InRangeObservations) =>
        /\ hmmCall = "viterbi" =>
              /\ hmmResult.probability # NegInf
              /\ \A t \in 0..(ObsT - 1) : hmmResult.probabilities[t] # NegInf
        /\ hmmCall = "forward" =>
              /\ hmmResult.probability # NegInf
              /\ \A t \in 0..(ObsT - 1) :
                    \A i \in StateIds(hmm) : hmmResult.alpha[t][i] # NegInf


(***************************************************************************)
(* Properties of the feature specification.                                *)
(***************************************************************************)
FrameSize == options.windowSize
HopSize == options.hopSize

InvalidFrameConfiguration == FrameSize <= 0 \/ HopSize <= 0

\* C13: a call of frame extraction with frameSize <= 0 or hopSize <= 0 ends
\* in a ConfigurationError, having entered no loop and produced no frame.
C13_InvalidConfigurationRejected ==
    (featCall # "none" /\ InvalidFrameConfiguration) =>
        /\ featStatus = "ConfigurationError"
        /\ featResult = << >>

\* floor((len - frameSize) / hopSize) + 1, or 0 for a buffer shorter than
\* one frame.
ExpectedFrameCount ==
    IF Len(audioData) >= FrameSize
    THEN ((Len(audioData) - FrameSize) \div HopSize) + 1
    ELSE 0

\* Samples [k * hopSize, k * hopSize + frameSize) of the buffer.
SampleWindow(k) == [j \in 1..FrameSize |-> audioData[k * HopSize + j]]

\* C14: for positive frameSize and hopSize, createFrames and
\* processAudioFrames return floor((len - frameSize) / hopSize) + 1 frames
\* when len >= frameSize and none otherwise, and frame k is (is computed
\* from) samples [k * hopSize, k * hopSize + frameSize).
C14_FrameCountAndContent ==
    (FrameSize > 0 /\ HopSize > 0) =>
        /\ featCall = "createFrames" =>
              /\ featStatus = "returned"
              /\ Len(featResult) = ExpectedFrameCount
              /\ \A k \in 0..(ExpectedFrameCount - 1) :
                    featResult[k + 1] = SampleWindow(k)
        /\ featCall = "processAudioFrames" =>
              /\ featStatus = "returned"
              /\ Len(featResult) = ExpectedFrameCount
              /\ \A k \in 0..(ExpectedFrameCount - 1) :
                    featResult[k + 1] =
                        [energy |-> calculateEnergy(SampleWindow(k)),
                         zcr |-> calculateZeroCrossingRate(SampleWindow(k))]

\* createFrames has returned two or more frames of two or more samples
\* from a buffer whose tail does not fill a further hop.
C14_Witness ==
    /\ featCall = "createFrames"
    /\ featStatus = "returned"
    /\ FrameSize >= 2 /\ HopSize >= 2
    /\ Len(featResult) >= 2
    /\ (Len(audioData) - FrameSize) % HopSize # 0
    /\ featResult[1] # featResult[2]


\* C19: extractFeatures multiplies each frame by the window of the
\* configured windowType: the features of frame k are those of samples
\* [k * hopSize, k * hopSize + frameSize) under that window.
C19_ConfiguredWindowApplied ==
    (featCall = "extractFeatures" /\ featStatus = "returned") =>
        \A k \in 1..Len(featResult.energy) :
            /\ featResult.energy[k] =
                  calculateEnergy(applyWindow(SampleWindow(k - 1),
                                              options.windowType))
            /\ featResult.zeroCrossingRate[k] =
                  calculateZeroCrossingRate(applyWindow(SampleWindow(k - 1),
                                                        options.windowType))

\* The sign of a sample: -1, 0 or 1.
Sign(x) == IF x > 0 THEN 1 ELSE IF x < 0 THEN 0 - 1 ELSE 0

SignChanges(frame) ==
    Cardinality({i \in 2..Len(frame) : Sign(frame[i]) # Sign(frame[i - 1])})

\* C24: the zero-crossing rate of a frame is the number of adjacent pairs
\* of samples of different sign, a zero next to a positive sample included,
\* divided by the length of the frame, and lies in [0, 1].
C24_ZeroCrossingRateCountsSignChanges ==
    (/\ featCall = "processAudioFrames" /\ featStatus = "returned"
     /\ FrameSize > 0 /\ HopSize > 0)
        => \A k \in 1..Len(featResult) :
              /\ featResult[k].zcr =
                    Rat(SignChanges(SampleWindow(k - 1)), FrameSize)
              /\ ~RLess(featResult[k].zcr, RZero)
              /\ ~RLess(ROne, featResult[k].zcr)


(***************************************************************************)
(* Properties of the worklet specification.                                *)
(***************************************************************************)
\* C15: after N input samples in all, delivered in process() calls of any
\* sizes, the worklet has posted exactly floor(N / hopSize) feature
\* messages.
C15_OneMessagePerHop ==
    /\ Len(posted) = consumed \div worklet.hopSize
    /\ \A k \in 1..Len(posted) : posted[k].type = "features"

\* C16: the k-th feature vector (k from 0) is emitted with the timestamp
\* k * hopSize / sampleRate: the worklet has posted it once the stream has
\* passed its hop boundary, extractFeatures returns it for frame k; so each
\* timestamp is greater than the one before.
C16_TimestampIsHopIndex ==
    /\ \A k \in 1..(consumed \div worklet.hopSize) :
          /\ Len(posted) >= k
          /\ posted[k].data.timestamp =
                Rat((k - 1) * worklet.hopSize, worklet.sampleRate)
    /\ \A k \in 2..Len(posted) :
          RLess(posted[k - 1].data.timestamp, posted[k].data.timestamp)
    /\ (featCall = "extractFeatures" /\ featStatus = "returned") =>
          \A k \in 1..Len(featResult.timestamps) :
              featResult.timestamps[k] = Rat((k - 1) * HopSize, sampleRate)

\* The input sample at position p of the stream, from 1; positions before
\* the start of the stream are the zeros the buffer was created with.
SampleAt(p) == IF p >= 1 THEN stream[p] ELSE 0

\* C23: the frame built at the k-th hop boundary holds the bufferSize
\* samples received last, oldest first and ending with the sample written
\* last, zeros where the stream had not begun, each times the window
\* coefficient of its place.
C23_FrameIsLatestSamplesInOrder ==
    \A k \in 1..Len(frames) :
        frames[k] =
            [i \in 1..worklet.bufferSize |->
                Times(SampleAt(k * worklet.hopSize - worklet.bufferSize + i),
                      WindowValue("hamming", i - 1, worklet.bufferSize))]

\* A frame built after the write position has wrapped to the middle of the
\* buffer, whose samples are not all alike.
C23_Witness ==
    \E k \in 1..Len(frames) :
        /\ k * worklet.hopSize > worklet.bufferSize
        /\ (k * worklet.hopSize) % worklet.bufferSize # 0
        /\ \E i \in 1..worklet.bufferSize :
              SampleAt(k * worklet.hopSize - worklet.bufferSize + i) #
                  SampleAt(k * worklet.hopSize)
        /\ frames[k][worklet.bufferSize] =
              Times(SampleAt(k * worklet.hopSize),
                    worklet.window[worklet.bufferSize])

RECURSIVE IsPowerOfTwo(_)
IsPowerOfTwo(n) == n = 1 \/ (n > 1 /\ n % 2 = 0 /\ IsPowerOfTwo(n \div 2))

\* C27: with a buffer size that is a power of two, 2 or more, the loops of
\* fft end: no process() call is left looping, and every frame built at a
\* hop boundary has had its message posted.
C27_HopProcessingTerminates ==
    (worklet.bufferSize >= 2 /\ IsPowerOfTwo(worklet.bufferSize))
        => /\ workletPc = "ready"
           /\ Len(posted) = Len(frames)

\* The cells the fill loops of the last call have written: all of them for
\* compute, those of the band for computeConstrained.
FilledCells ==
    {c \in (1..CallN) \X (1..CallM) :
        dtwCall.op = "computeConstrained"
            => InBand(c[1], c[2], dtwCall.windowSize)}

FillOps == {"compute", "computeConstrained", "computeNormalizedDistance"}

PredecessorCost(i, j, dir) ==
    CASE dir = 0 -> costMatrix[i - 1][j - 1]
      [] dir = 1 -> costMatrix[i][j - 1]
      [] dir = 2 -> costMatrix[i - 1][j]
      [] OTHER -> 0 - 1

\* C22: in every cell the fill has written, the recorded direction leads to
\* a predecessor of least cumulative cost, and among predecessors of equal
\* least cost it is the diagonal one before the horizontal one before the
\* vertical one.
C22_PredecessorMinimalTieOrder ==
    (dtwCall.op \in FillOps /\ NonEmptyCall)
        => \A c \in FilledCells :
              LET i == c[1]
                  j == c[2]
                  least == SetMin({PredecessorCost(i, j, dir) : dir \in 0..2})
              IN  /\ PredecessorCost(i, j, pathMatrix[i][j]) = least
                  /\ \A dir \in 0..2 :
                        PredecessorCost(i, j, dir) = least
                            => pathMatrix[i][j] <= dir

\* A returned alignment whose matrix has a finite tie of the diagonal and
\* the horizontal predecessor, a finite tie of the horizontal and the
\* vertical one below the diagonal one, and a cell only the vertical
\* predecessor wins.
C22_Witness ==
    /\ dtwPc = "returned" /\ dtwCall.op \in FillOps /\ ComparableCall
    /\ \E c \in FilledCells :
          /\ PredecessorCost(c[1], c[2], 0) = PredecessorCost(c[1], c[2], 1)
          /\ PredecessorCost(c[1], c[2], 0) < Inf
          /\ pathMatrix[c[1]][c[2]] = 0
    /\ \E c \in FilledCells :
          /\ PredecessorCost(c[1], c[2], 1) = PredecessorCost(c[1], c[2], 2)
          /\ PredecessorCost(c[1], c[2], 1) < PredecessorCost(c[1], c[2], 0)
          /\ pathMatrix[c[1]][c[2]] = 1
    /\ \E c \in FilledCells :
          /\ PredecessorCost(c[1], c[2], 2) < PredecessorCost(c[1], c[2], 1)
          /\ PredecessorCost(c[1], c[2], 2) < PredecessorCost(c[1], c[2], 0)
          /\ pathMatrix[c[1]][c[2]] = 2

\* C26: every computeConstrained call with two non-empty sequences returns,
\* whatever the window size: its backtracking loop ends.
C26_ConstrainedTerminates ==
    (dtwCall.op = "computeConstrained" /\ NonEmptyCall) => dtwPc = "returned"

\* C29: backward reads and writes inside its vectors only: it never traps,
\* on an empty sequence it hands back a lattice without rows, and the row
\* before a step whose symbol the model does not know is -infinity
\* throughout, the emission of that step counting as probability 0.
C29_BackwardStaysInRange ==
    hmmCall = "backward" =>
        /\ hmmPc # "trapped"
        /\ ObsT = 0 => hmmResult = << >>
        /\ \A t \in UnknownSteps :
              t >= 1 => \A i \in StateIds(hmm) : hmmResult[t - 1][i] = NegInf

(***************************************************************************)
(* Properties of the analysis service.                                     *)
(***************************************************************************)
\* An analyzeRecitation call has run its three stages to a settlement.
AnalysisSettled == analysis.pc \in {"resolved", "rejected"}

\* C21: every buffer on the WASM heap (the input buffers the service
\* mallocs and the feature buffer process_audio_features returns) has been
\* passed to free exactly once whenever no stage is running, also after a
\* stage has thrown.
C21_BuffersFreedExactlyOnce ==
    \A ptr \in 1..Len(wasmHeap) : wasmHeap[ptr].frees = 1

\* C25: with no module loaded (the load failed or timed out) the service is
\* initialized, and an analyzeRecitation call then resolves.
C25_SimulationModeResolves ==
    /\ (loadPc = "rejected" /\ initPc = "done") => initialized
    /\ (AnalysisSettled /\ ~analysis.wasm) => analysis.pc = "resolved"

\* C28: extractWasmMFCC reads no more values from the feature buffer than
\* process_audio_features wrote to it.
C28_ReadWithinWritten ==
    (AnalysisSettled /\ analysis.wasm) => analysis.read <= analysis.written

(***************************************************************************)
(* C30.  An AudioService has at most one recording in progress: a          *)
(* startRecording call issued while an earlier call still awaits the       *)
(* microphone, or while a recording runs, is rejected with 'Recording      *)
(* already in progress', and there is never a second live stream or a      *)
(* second recording MediaRecorder.                                         *)
(***************************************************************************)
LiveStreams == {i \in DOMAIN mediaStreams : mediaStreams[i] = "live"}

RecordingRecorders ==
    {r \in DOMAIN mediaRecorders : mediaRecorders[r].state = "recording"}

C30_AtMostOneRecording ==
    /\ \A c \in StartCalls : startOverlaps[c] => startPc[c] = "rejected"
    /\ Cardinality(LiveStreams) <= 1
    /\ Cardinality(RecordingRecorders) <= 1

====
